---------------------------- MODULE Spec2Model ----------------------------
(***************************************************************************)
(* A model of the asciiWallpaper conversion core:                          *)
(*   core/ascii_converter.py  (AsciiConverter)                             *)
(*   core/color_handler.py    (ColorHandler)                               *)
(*   core/output_formatter.py (OutputFormatter)                            *)
(*                                                                         *)
(* Pixels are numpy uint8 triples, as ImageProcessor.to_array produces     *)
(* them.  Python float arithmetic is IEEE-754 binary64 and is modelled     *)
(* bit-exactly: a float is a record [m, e] standing for m * 2^e, the       *)
(* mantissa m a natural number held as four limbs of 20 bits each         *)
(* (least significant first), rounded to 53 significant bits,              *)
(* round-half-to-even, after every operation.                              *)
(***************************************************************************)
EXTENDS Integers, Sequences, FiniteSets, TLC

VARIABLES
    char_set,          \* AsciiConverter.char_set: the active ramp, a sequence of glyphs
    char_set_name,     \* AsciiConverter.char_set_name
    directional_mode,  \* AsciiConverter.directional_mode
    active_scheme,     \* ColorHandler.active_scheme
    output_mode,       \* ColorHandler.output_mode
    promotion,         \* the numpy build's scalar promotion rule: "legacy" or "weak"
    call,              \* the last operation: its name, arguments, pre-state and result
    Logger,            \* utils/logger.py: the Logger singleton and the 'ascii_wallpaper' logger
    Config,            \* utils/config.py: the Config singleton
    LiveWallpaper,     \* extensions/live_wallpaper.py: running, thread (0 for None),
                       \* the position of every worker thread started so far and
                       \* the position of the thread that calls start() and stop()
    CLI                \* ui/cli.py: whether image_processor is set, its image as
                       \* to_array() gives it, ascii_result, and the position of
                       \* the command loop with the arguments of the command

vars == <<char_set, char_set_name, directional_mode, active_scheme,
          output_mode, promotion, call, Logger, Config, LiveWallpaper, CLI>>

\* the state outside the conversion core
app == <<Logger, Config, LiveWallpaper, CLI>>

Min(a, b) == IF a <= b THEN a ELSE b

Max(a, b) == IF a >= b THEN a ELSE b

Max3(a, b, c) == Max(a, Max(b, c))

Abs(a) == IF a < 0 THEN -a ELSE a

(***************************************************************************)
(* binary64 arithmetic                                                     *)
(***************************************************************************)
LimbBase == 2^20

\* number of bits of a natural number below 2^31
RECURSIVE BitsOf(_)
BitsOf(n) == IF n = 0 THEN 0 ELSE 1 + BitsOf(n \div 2)

BigZero == <<0, 0, 0, 0>>

\* one carry: limb i keeps its low 20 bits and hands the rest to limb i + 1
BigCarry(c, i) ==
    [c EXCEPT ![i] = @ % LimbBase, ![i + 1] = @ + (c[i] \div LimbBase)]

\* carry propagation over limbs that may have grown past the base
BigNorm(c) == BigCarry(BigCarry(BigCarry(c, 1), 2), 3)

BigMulSmall(m, k) == BigNorm(<<m[1] * k, m[2] * k, m[3] * k, m[4] * k>>)

BigAdd(a, b) == BigNorm(<<a[1] + b[1], a[2] + b[2], a[3] + b[3], a[4] + b[4]>>)

\* one step of long division: acc is <<quotient limbs so far, remainder>>
BigDivStep(acc, limb, d) ==
    << <<(acc[2] * LimbBase + limb) \div d>> \o acc[1],
       (acc[2] * LimbBase + limb) % d >>

\* long division by a divisor below 2^10: <<quotient, remainder>>
BigDivSmall(m, d) ==
    BigDivStep(BigDivStep(BigDivStep(BigDivStep(<< <<>>, 0 >>, m[4], d), m[3], d),
                          m[2], d), m[1], d)

BigBitLen(m) ==
    IF m[4] # 0 THEN 60 + BitsOf(m[4])
    ELSE IF m[3] # 0 THEN 40 + BitsOf(m[3])
    ELSE IF m[2] # 0 THEN 20 + BitsOf(m[2])
    ELSE BitsOf(m[1])

\* shift left by n bits (the result fits in four limbs)
RECURSIVE BigShl(_, _)
BigShl(m, n) ==
    IF n >= 20 THEN BigShl(<<0, m[1], m[2], m[3]>>, n - 20)
    ELSE LET p == 2^n
             q == 2^(20 - n)
         IN  << (m[1] % q) * p,
                (m[2] % q) * p + (m[1] \div q),
                (m[3] % q) * p + (m[2] \div q),
                (m[4] % q) * p + (m[3] \div q) >>

\* shift right by n bits, dropping the bits shifted out
RECURSIVE BigShr(_, _)
BigShr(m, n) ==
    IF n >= 20 THEN BigShr(<<m[2], m[3], m[4], 0>>, n - 20)
    ELSE LET p == 2^n
             q == 2^(20 - n)
         IN  << (m[1] \div p) + (m[2] % p) * q,
                (m[2] \div p) + (m[3] % p) * q,
                (m[3] \div p) + (m[4] % p) * q,
                m[4] \div p >>

\* the quotient q of a mantissa by 2^k, one higher if the k bits dropped (rem)
\* are above the half, or at the half with q odd or sticky set
FRoundUp(q, rem, half, sticky) ==
    IF rem > half \/ (rem = half /\ (sticky \/ q[1] % 2 = 1))
    THEN BigNorm(<<q[1] + 1, q[2], q[3], q[4]>>)
    ELSE q

\* m * 2^e with the k lowest bits of m rounded away (k below 20)
FRoundBits(m, e, sticky, k) ==
    IF k <= 0 THEN [m |-> m, e |-> e]
    ELSE [m |-> FRoundUp(BigShr(m, k), m[1] % (2^k), 2^(k - 1), sticky),
          e |-> e + k]

\* round m * 2^e to 53 significant bits, ties to even; sticky says that the
\* exact value lies strictly above m * 2^e (a division left a remainder)
FRound(m, e, sticky) == FRoundBits(m, e, sticky, BigBitLen(m) - 53)

\* the float n * 2^e for a natural n below 2^20
FInt(n, e) == [m |-> <<n, 0, 0, 0>>, e |-> e]

\* float * k for a natural k below 2^10
FMulInt(x, k) == FRound(BigMulSmall(x.m, k), x.e, FALSE)

\* the float of a quotient and remainder qr of a mantissa shifted left by s
FRoundQuotient(qr, e) == FRound(qr[1], e, qr[2] # 0)

\* x / d with the mantissa of x shifted left by s bits before the division
FDivShifted(x, d, s) == FRoundQuotient(BigDivSmall(BigShl(x.m, s), d), x.e - s)

\* float / d for a natural d, 0 < d < 2^10
FDivInt(x, d) ==
    IF x.m = BigZero THEN x
    ELSE FDivShifted(x, d, 55 + BitsOf(d) - BigBitLen(x.m))

\* hi + lo for hi.e >= lo.e
FAddAligned(hi, lo) ==
    FRound(BigAdd(BigShl(hi.m, hi.e - lo.e), lo.m), lo.e, FALSE)

\* float + float (both non-negative)
FAdd(x, y) ==
    IF x.m = BigZero THEN y
    ELSE IF y.m = BigZero THEN x
    ELSE IF x.e >= y.e THEN FAddAligned(x, y)
    ELSE FAddAligned(y, x)

\* int(float): truncation of a non-negative float whose integer part is below 2^20
FTrunc(x) ==
    IF x.e >= 0 THEN BigShl(x.m, x.e)[1] ELSE BigShr(x.m, -x.e)[1]

\* a >= b
BigGE(a, b) ==
    IF a[4] # b[4] THEN a[4] > b[4]
    ELSE IF a[3] # b[3] THEN a[3] > b[3]
    ELSE IF a[2] # b[2] THEN a[2] > b[2]
    ELSE a[1] >= b[1]

\* one borrow: a negative limb i takes the base from limb i + 1
BigBorrow(c, i) ==
    IF c[i] < 0 THEN [c EXCEPT ![i] = @ + LimbBase, ![i + 1] = @ - 1] ELSE c

\* a - b for a >= b
BigSub(a, b) ==
    BigBorrow(BigBorrow(BigBorrow(
        <<a[1] - b[1], a[2] - b[2], a[3] - b[3], a[4] - b[4]>>, 1), 2), 3)

\* the same value with a mantissa of exactly 53 bits (x is not zero)
FNormal(x) ==
    IF BigBitLen(x.m) > 53
    THEN [m |-> BigShr(x.m, BigBitLen(x.m) - 53), e |-> x.e + (BigBitLen(x.m) - 53)]
    ELSE [m |-> BigShl(x.m, 53 - BigBitLen(x.m)), e |-> x.e - (53 - BigBitLen(x.m))]

\* n steps of restoring division of rem by d, rem < 2 * d: the quotient bits
\* are appended to q (which stays below 2^60), and s says whether a
\* remainder is left
RECURSIVE DivBits(_, _, _, _)
DivBits(rem, d, q, n) ==
    IF n = 0 \/ q[4] >= LimbBase THEN [m |-> q, s |-> rem # BigZero]
    ELSE IF BigGE(rem, d)
    THEN DivBits(BigMulSmall(BigSub(rem, d), 2), d,
                 BigAdd(BigMulSmall(q, 2), <<1, 0, 0, 0>>), n - 1)
    ELSE DivBits(BigMulSmall(rem, 2), d, BigMulSmall(q, 2), n - 1)

\* the float of a truncated mantissa a.m with sticky bit a.s
FRoundSticky(a, e) == FRound(a.m, e, a.s)

\* x / y for mantissas of 53 bits: 56 quotient bits, then one rounding
FDivNormal(x, y) == FRoundSticky(DivBits(x.m, y.m, BigZero, 56), x.e - y.e - 55)

\* float / float, both non-negative, y not zero
FDiv(x, y) == IF x.m = BigZero THEN x ELSE FDivNormal(FNormal(x), FNormal(y))

\* bits 9 * i .. 9 * i + 8 of a mantissa
Chunk(m, i) == BigShr(m, 9 * i)[1] % 512

\* one step of the long multiplication: the sum so far loses its 9 lowest
\* bits to the sticky bit and gains xm * c
MulStep(a, xm, c) ==
    [m |-> BigAdd(BigShr(a.m, 9), BigMulSmall(xm, c)),
     s |-> a.s \/ a.m[1] % 512 # 0]

\* floor(xm * ym / 2^45) (below 2^62) and the sticky bit, by the chunks
\* i .. 5 of ym
RECURSIVE MulChunks(_, _, _, _)
MulChunks(a, xm, ym, i) ==
    IF i > 5 \/ a.m[4] >= LimbBase THEN a
    ELSE MulChunks(MulStep(a, xm, Chunk(ym, i)), xm, ym, i + 1)

\* x * y for mantissas of 53 bits
FMulNormal(x, y) ==
    FRoundSticky(MulChunks([m |-> BigZero, s |-> FALSE], x.m, y.m, 0),
                 x.e + y.e + 45)

\* float * float, both non-negative
FMul(x, y) ==
    IF x.m = BigZero THEN x
    ELSE IF y.m = BigZero THEN y
    ELSE FMulNormal(FNormal(x), FNormal(y))

\* x > y for mantissas of 53 bits
FGreaterNormal(x, y) == x.e > y.e \/ (x.e = y.e /\ ~BigGE(y.m, x.m))

\* float > float, both non-negative
FGreater(x, y) ==
    IF x.m = BigZero THEN FALSE
    ELSE IF y.m = BigZero THEN TRUE
    ELSE FGreaterNormal(FNormal(x), FNormal(y))

(***************************************************************************)
(* ColorHandler: the colour schemes                                        *)
(***************************************************************************)
\* a decimal literal num/den: the float nearest to it
Lit(num, den) == FDivInt(FInt(num, 0), den)

Lit0299 == Lit(299, 1000)

Lit0587 == Lit(587, 1000)

Lit0114 == Lit(114, 1000)

Lit07 == Lit(7, 10)

Lit03 == Lit(3, 10)

full_rgb(r, g, b) == <<r, g, b>>

\* int(c * 0.7 + 255), the white not weighted
pastel_channel_unweighted(c) == FTrunc(FAdd(FMulInt(Lit07, c), FInt(255, 0)))

\* int(c * 0.7 + 255 * 0.3)
pastel_channel(c) == FTrunc(FAdd(FMulInt(Lit07, c), FMulInt(Lit03, 255)))

pastelize(r, g, b) == <<pastel_channel(r), pastel_channel(g), pastel_channel(b)>>

\* min(255 / max_val, 1.5): 1.5 is a float, the quotient is rounded
neon_scaling(max_val) ==
    IF 2 * 255 <= 3 * max_val
    THEN FDivInt(FInt(255, 0), max_val)
    ELSE FInt(3, -1)

\* min(int(c * scaling), 255)
neon_channel(c, scaling) == Min(FTrunc(FMulInt(scaling, c)), 255)

\* lines 75-77
neon_scaled(r, g, b, scaling) ==
    <<neon_channel(r, scaling), neon_channel(g, scaling), neon_channel(b, scaling)>>

neonize(r, g, b) ==
    IF Max3(r, g, b) = 0 THEN <<0, 0, 0>>
    ELSE neon_scaled(r, g, b, neon_scaling(Max3(r, g, b)))

\* (gray, gray, gray)
gray_triple(gray) == <<gray, gray, gray>>

to_grayscale(r, g, b) ==
    gray_triple(FTrunc(FAdd(FAdd(FMulInt(Lit0299, r), FMulInt(Lit0587, g)),
                            FMulInt(Lit0114, b))))

SchemeNames == {"full_rgb", "pastel", "neon", "grayscale"}

\* self.color_schemes[name](r, g, b)
color_schemes(name, r, g, b) ==
    CASE name = "full_rgb"  -> full_rgb(r, g, b)
      [] name = "pastel"    -> pastelize(r, g, b)
      [] name = "neon"      -> neonize(r, g, b)
      [] name = "grayscale" -> to_grayscale(r, g, b)

(***************************************************************************)
(* Python values                                                           *)
(***************************************************************************)
\* None, where a colour triple or a ramp may stand
None == <<>>

\* a Python str result
Str(s) == [type |-> "str", text |-> s, fg |-> None, bg |-> None]

\* the tuple (char, (r, g, b), bg_color) of image mode
Tuple(char, rgb, bg_color) == [type |-> "tuple", text |-> char, fg |-> rgb, bg |-> bg_color]

ESC == "\\033"

(***************************************************************************)
(* ColorHandler                                                            *)
(***************************************************************************)
\* str.lower() on the mode names the model passes
Lower(s) ==
    CASE s = "PNG"      -> "png"
      [] s = "HTML"     -> "html"
      [] s = "Image"    -> "image"
      [] s = "Terminal" -> "terminal"
      [] s = "PDF"      -> "pdf"
      [] OTHER          -> s

format_to_mode ==
    [f \in {"png", "jpg", "jpeg", "bmp", "gif", "txt", "text", "html", "htm"} |->
        CASE f \in {"png", "jpg", "jpeg", "bmp", "gif"} -> "image"
          [] f \in {"txt", "text"}                      -> "terminal"
          [] f \in {"html", "htm"}                      -> "html"]

valid_modes == {"terminal", "html", "image"}

\* set_output_mode that stores the name as the caller wrote it
set_output_mode_unlowered(mode) ==
    LET mapped == IF Lower(mode) \in DOMAIN format_to_mode
                  THEN format_to_mode[Lower(mode)]
                  ELSE mode
    IN  IF Lower(mapped) \in valid_modes
        THEN <<mapped, TRUE>>
        ELSE <<output_mode, FALSE>>

\* set_output_mode(mode): <<output_mode afterwards, return value>>
set_output_mode(mode) ==
    LET mapped == IF Lower(mode) \in DOMAIN format_to_mode
                  THEN format_to_mode[Lower(mode)]
                  ELSE mode
    IN  IF Lower(mapped) \in valid_modes
        THEN <<Lower(mapped), TRUE>>
        ELSE <<output_mode, FALSE>>

\* set_color_scheme that accepts any name
set_color_scheme_unchecked(scheme_name) == <<scheme_name, TRUE>>

\* set_color_scheme(scheme_name): <<active_scheme afterwards, return value>>
set_color_scheme(scheme_name) ==
    IF scheme_name \in SchemeNames
    THEN <<scheme_name, TRUE>>
    ELSE <<active_scheme, FALSE>>

\* "rgb" formatted as r;g;b or r,g,b
Fmt3(c, sep) == ToString(c[1]) \o sep \o ToString(c[2]) \o sep \o ToString(c[3])

\* lines 91-115: the cell for char in the colour c the scheme gave
colored_cell(char, c, bg_color) ==
    CASE output_mode = "terminal" ->
           Str(ESC \o "[38;2;" \o Fmt3(c, ";") \o "m"
               \o (IF bg_color # None
                   THEN ESC \o "[48;2;" \o Fmt3(bg_color, ";") \o "m"
                   ELSE "")
               \o char \o ESC \o "[0m")
      [] output_mode = "html" ->
           Str("<span style=\"color:rgb(" \o Fmt3(c, ",") \o ");"
               \o (IF bg_color # None
                   THEN "background-color:rgb(" \o Fmt3(bg_color, ",") \o ");"
                   ELSE "")
               \o "\">" \o char \o "</span>")
      [] output_mode = "image" -> Tuple(char, c, bg_color)
      [] OTHER -> Str(char)

\* lines 95-96 and 105-106: br, bg, bb = bg_color raises ValueError unless
\* bg_color has three items; the image mode does not unpack it
bg_color_raises(bg_color) ==
    /\ output_mode \in {"terminal", "html"}
    /\ bg_color # None
    /\ Len(bg_color) # 3

\* apply_color(char, rgb, bg_color); a scheme missing from color_schemes is a
\* KeyError and a malformed bg_color a ValueError, which the handler of
\* lines 117-119 answers with the plain character
apply_color(char, rgb, bg_color) ==
    IF active_scheme \notin SchemeNames \/ bg_color_raises(bg_color) THEN Str(char)
    ELSE colored_cell(char, color_schemes(active_scheme, rgb[1], rgb[2], rgb[3]),
                      bg_color)

(***************************************************************************)
(* AsciiConverter: the ramps                                               *)
(***************************************************************************)
PresetNames == {"standard", "bright", "detailed", "simple", "blocks",
                "minimal", "manga", "diagonal", "contrast"}

\* self.char_sets; a glyph outside ASCII is written by its code point
char_sets(name) ==
    CASE name = "standard" ->
            <<"@", "%", "#", "*", "+", "=", "-", ":", ".", " ">>
      [] name = "bright" ->
            <<" ", ".", ":", "-", "=", "+", "*", "#", "%", "@">>
      [] name = "detailed" ->
            <<"$", "@", "B", "%", "8", "&", "W", "M", "#", "*", "o", "a",
              "h", "k", "b", "d", "p", "q", "w", "m", "Z", "O", "0", "Q",
              "L", "C", "J", "U", "Y", "X", "z", "c", "v", "u", "n", "x",
              "r", "j", "f", "t", "/", "\\", "|", "(", ")", "1", "{", "}",
              "[", "]", "?", "-", "_", "+", "~", "<", ">", "i", "!", "l",
              "I", ";", ":", ",", "\"", "^", "`", "'", ".", " ">>
      [] name = "simple" ->
            <<"#", "@", "%", "*", "+", "=", "-", ":", ".", " ">>
      [] name = "blocks" ->
            <<"U+2588", "U+2593", "U+2592", "U+2591", " ">>
      [] name = "minimal" ->
            <<"@", ":", ".", " ">>
      [] name = "manga" ->
            <<"U+2588", "U+2593", "U+2592", "U+2591", "@", "%", "#", "*",
              "/", "\\", "(", ")", "[", "]", "{", "}", "=", "_", "-", "+",
              "~", "<", ">", "!", ";", ":", ",", ".", " ">>
      [] name = "diagonal" ->
            <<"\\", "|", "/", "U+2500", "U+2502", "U+250C", "U+2510",
              "U+2514", "U+2518", "U+253C", "U+2584", "U+2580", "U+2588",
              "U+2593", "U+2592", "U+2591", " ">>
      [] name = "contrast" ->
            <<"@", "%", "#", "*", "+", "=", "-", ":", ".", " ">>

\* set_char_set that falls back to the default ramp on an unknown name
set_char_set_resetting(set_name, custom_chars) ==
    IF custom_chars # None
    THEN <<custom_chars, "custom">>
    ELSE IF set_name \in PresetNames
    THEN <<char_sets(set_name), set_name>>
    ELSE <<char_sets("standard"), "standard">>

\* set_char_set(set_name, custom_chars): <<char_set, char_set_name>> afterwards;
\* the return value is the char_set afterwards.  An empty custom_chars is falsy.
set_char_set(set_name, custom_chars) ==
    IF custom_chars # None
    THEN <<custom_chars, "custom">>
    ELSE IF set_name \in PresetNames
    THEN <<char_sets(set_name), set_name>>
    ELSE <<char_set, char_set_name>>

(***************************************************************************)
(* AsciiConverter.detect_direction                                         *)
(*                                                                         *)
(* An image array is [shape |-> <<h, w>>, data |-> rows], rows and columns *)
(* counted from 0 as in the code, every pixel a uint8 triple.              *)
(***************************************************************************)
NoneArray == [shape |-> <<>>, data |-> <<>>]

h_kernel == << <<-1, 0, 1>>, <<-2, 0, 2>>, <<-1, 0, 1>> >>

v_kernel == << <<-1, -2, -1>>, <<0, 0, 0>>, <<1, 2, 1>> >>

\* np.mean(window, axis=2).astype(np.uint8) at the pixel p
pixel_mean(p) == FTrunc(FDivInt(FInt(p[1] + p[2] + p[3], 0), 3))

window_gray(image_array, y, x) == pixel_mean(image_array.data[y][x])

\* one row of window_gray * kernel, summed
ConvolveRow(image_array, y, x_min, kernel_row) ==
    window_gray(image_array, y, x_min) * kernel_row[1]
    + window_gray(image_array, y, x_min + 1) * kernel_row[2]
    + window_gray(image_array, y, x_min + 2) * kernel_row[3]

\* np.sum(window_gray * kernel) for the 3x3 window whose corner is (y_min, x_min)
Convolve(image_array, y_min, x_min, kernel) ==
    ConvolveRow(image_array, y_min, x_min, kernel[1])
    + ConvolveRow(image_array, y_min + 1, x_min, kernel[2])
    + ConvolveRow(image_array, y_min + 2, x_min, kernel[3])

\* np.arctan2(gy, gx) * 180 / pi >= 22.5 for gx, gy >= 0, not both 0:
\* tan(22.5 deg) = sqrt(2) - 1, and no integers gx, gy meet the boundary
AngleAtLeast22(gy, gx) == (gy + gx) * (gy + gx) >= 2 * gx * gx

\* ... >= 67.5: tan(67.5 deg) = sqrt(2) + 1
AngleAtLeast67(gy, gx) == gy >= gx /\ (gy - gx) * (gy - gx) >= 2 * gx * gx

\* lines 209-227: the bucket of angle = np.arctan2(gy, gx) * 180 / pi, in
\* (-180, 180], for integers gx, gy not both 0.  The bounds 22.5 and 67.5
\* are decided on (|gx|, |gy|); the signs select the quadrant.  The chain
\* of lines 212-227 tests ne, n, nw, w, sw, s, se in turn and ends in 'e'.
angle_direction(gx, gy) ==
    IF AngleAtLeast67(Abs(gy), Abs(gx))
    THEN (IF gy >= 0 THEN "n" ELSE "s")
    ELSE IF AngleAtLeast22(Abs(gy), Abs(gx))
    THEN (IF gy >= 0 THEN (IF gx >= 0 THEN "ne" ELSE "nw")
                     ELSE (IF gx >= 0 THEN "se" ELSE "sw"))
    ELSE (IF gx >= 0 THEN "e" ELSE "w")

\* lines 205-227 with 'or' for the 'and' of line 206
gradient_direction_either(gx, gy) ==
    IF gx < 20 \/ gy < 20 THEN "none" ELSE angle_direction(gx, gy)

\* lines 205-227: the direction of the gradient (gx, gy)
gradient_direction(gx, gy) ==
    IF gx < 20 /\ gy < 20 THEN "none" ELSE angle_direction(gx, gy)

\* lines 186-203 without the np.abs of lines 202-203
window_direction_signed(image_array, y_min, x_min) ==
    gradient_direction(Convolve(image_array, y_min, x_min, h_kernel),
                       Convolve(image_array, y_min, x_min, v_kernel))

\* lines 186-203 for the window whose corner is (y_min, x_min)
window_direction(image_array, y_min, x_min) ==
    gradient_direction(Abs(Convolve(image_array, y_min, x_min, h_kernel)),
                       Abs(Convolve(image_array, y_min, x_min, v_kernel)))

detect_direction(image_array, x, y) ==
    IF \/ Min(image_array.shape[1] - 1, y + 1) - Max(0, y - 1) + 1 < 3
       \/ Min(image_array.shape[2] - 1, x + 1) - Max(0, x - 1) + 1 < 3
    THEN "none"
    ELSE window_direction(image_array, Max(0, y - 1), Max(0, x - 1))

(***************************************************************************)
(* AsciiConverter.pixel_to_ascii                                           *)
(*                                                                         *)
(* brightness_boost is [int |-> is it a Python int, q |-> value * 4]; the  *)
(* boosts of the model are multiples of 1/4, so that intensity * boost and *)
(* 255 - adjusted are exact in binary64 and are held in quarters.          *)
(***************************************************************************)
IntensityRedOnly(pixel) == pixel[1]

Intensity(pixel) == Max3(pixel[1], pixel[2], pixel[3])

\* intensity * brightness_boost in quarters.  uint8 * float is a float64.
\* uint8 * int is an int64 under numpy's legacy promotion; under the weak
\* promotion of numpy 2 it stays uint8: it wraps modulo 256, and an int
\* outside 0..255 raises OverflowError.
Product(intensity, brightness_boost) ==
    IF ~brightness_boost.int \/ promotion = "legacy"
    THEN [raised |-> FALSE, q |-> intensity * brightness_boost.q]
    ELSE IF (brightness_boost.q \div 4) \notin 0..255
    THEN [raised |-> TRUE, q |-> 0]
    ELSE [raised |-> FALSE, q |-> 4 * ((intensity * (brightness_boost.q \div 4)) % 256)]

\* mag with the sign of vq
WithSign(vq, mag) == IF vq < 0 THEN -mag ELSE mag

\* round(v / 255 * n) in place of int(v / 255 * n)
ScaleRound(vq, n) ==
    WithSign(vq, (FTrunc(FMulInt(FDivInt(FInt(Abs(vq), -2), 255), 2 * n)) + 1) \div 2)

\* int(v / 255 * n) for v given in quarters; int() truncates towards zero
ScaleTrunc(vq, n) ==
    WithSign(vq, FTrunc(FMulInt(FDivInt(FInt(Abs(vq), -2), 255), n)))

\* max(0, min(char_index, len(self.char_set) - 1))
ClampIndexUnclamped(char_index, n) == char_index

ClampIndex(char_index, n) == Max(0, Min(char_index, n - 1))

\* lines 69-78 for the product prod and a ramp of n glyphs
IndexOf(prod, invert, n) ==
    [raised |-> prod.raised,
     index  |-> IF prod.raised THEN 0
                ELSE ClampIndex(ScaleTrunc(IF invert
                                           THEN 4 * 255 - Min(4 * 255, prod.q)
                                           ELSE Min(4 * 255, prod.q),
                                           n - 1), n)]

\* lines 66-78: the index into the ramp
CharIndex(pixel, invert, brightness_boost) ==
    IndexOf(Product(Intensity(pixel), brightness_boost), invert, Len(char_set))

\* self.char_set[char_index]: Python indexing, a negative index counts from the end
GlyphAt(ramp, i) ==
    IF i >= 0 /\ i < Len(ramp) THEN [raised |-> FALSE, char |-> ramp[i + 1]]
    ELSE IF i < 0 /\ -i <= Len(ramp) THEN [raised |-> FALSE, char |-> ramp[Len(ramp) + i + 1]]
    ELSE [raised |-> TRUE, char |-> " "]

\* lines 90-101 without the override
DirectionalCharPlain(direction, char) == char

\* lines 90-101
DirectionalChar(direction, char) ==
    CASE direction \in {"ne", "sw"} -> "/"
      [] direction \in {"nw", "se"} -> "\\"
      [] direction \in {"n", "s"}   -> "|"
      [] direction \in {"e", "w"}   -> "-"
      [] OTHER                      -> char

\* the fallback of lines 113-115
Fallback(char_index) == [ret |-> Str(" "), raised |-> TRUE, char_index |-> char_index]

\* lines 84-105 without the test of char_set_name at line 89
directional_char_any_ramp(char, x, y, image_array) ==
    IF directional_mode /\ image_array # NoneArray
    THEN DirectionalChar(detect_direction(image_array, x, y), char)
    ELSE char

\* lines 84-105: the glyph, or the character of the edge direction
directional_char(char, x, y, image_array) ==
    IF /\ directional_mode
       /\ image_array # NoneArray
       /\ char_set_name \in {"manga", "diagonal"}
    THEN DirectionalChar(detect_direction(image_array, x, y), char)
    ELSE char

\* lines 107-111
cell_result(char, char_index, pixel, colored, bg_color) ==
    [ret |-> IF colored THEN apply_color(char, pixel, bg_color) ELSE Str(char),
     raised |-> FALSE, char_index |-> char_index]

\* lines 81-111 for the glyph read at char_index
glyph_result(glyph, char_index, pixel, x, y, image_array, colored, bg_color) ==
    IF glyph.raised THEN Fallback(char_index)
    ELSE cell_result(directional_char(glyph.char, x, y, image_array), char_index,
                     pixel, colored, bg_color)

\* lines 81-111 for the index ci
index_result(ci, pixel, x, y, image_array, colored, bg_color) ==
    IF ci.raised THEN Fallback(ci.index)
    ELSE glyph_result(GlyphAt(char_set, ci.index), ci.index, pixel, x, y,
                      image_array, colored, bg_color)

\* [ret |-> the return value, raised |-> whether the outer handler caught an
\*  exception and returned the fallback, char_index |-> the index used]
pixel_to_ascii(pixel, x, y, image_array, colored, bg_color, invert, brightness_boost) ==
    index_result(CharIndex(pixel, invert, brightness_boost), pixel, x, y,
                 image_array, colored, bg_color)

(***************************************************************************)
(* AsciiConverter.image_to_ascii, OutputFormatter.to_string                *)
(***************************************************************************)
\* a Python list of rows or of cells
List(items) == [type |-> "list", items |-> items]

RECURSIVE ConcatText(_, _)
ConcatText(cells, n) ==
    IF n = 0 THEN "" ELSE ConcatText(cells, n - 1) \o cells[n].text

\* lines 139-163 with the cells of a row taken right to left
ascii_row_reversed(cells, is_image_mode) ==
    IF is_image_mode THEN List([i \in 1..Len(cells) |-> cells[Len(cells) + 1 - i]])
    ELSE Str(ConcatText([i \in 1..Len(cells) |-> cells[Len(cells) + 1 - i]],
                        Len(cells)))

\* lines 139-163: a row is a list in image mode, a str otherwise
ascii_row(cells, is_image_mode) ==
    IF is_image_mode THEN List(cells) ELSE Str(ConcatText(cells, Len(cells)))

image_to_ascii(image_array, colored, bg_color, invert, brightness_boost) ==
    IF image_array = NoneArray THEN List(<<>>)
    ELSE List([j \in 1..image_array.shape[1] |->
                 ascii_row([i \in 1..image_array.shape[2] |->
                              pixel_to_ascii(image_array.data[j - 1][i - 1], i - 1,
                                             j - 1, image_array, colored, bg_color,
                                             invert, brightness_boost).ret],
                           output_mode = "image")])

RECURSIVE JoinLines(_, _)
JoinLines(rows, n) ==
    IF n = 0 THEN ""
    ELSE IF n = 1 THEN rows[1].text
    ELSE JoinLines(rows, n - 1) \o "\n" \o rows[n].text

\* None where a list of rows is expected
NoneRows == [type |-> "NoneType", items |-> <<>>]

\* "\n".join(ascii_rows): str.join raises TypeError on an item that is not a
\* str, and on an argument that is not iterable
to_string(ascii_rows) ==
    IF \/ ascii_rows.type # "list"
       \/ \E i \in 1..Len(ascii_rows.items) : ascii_rows.items[i].type # "str"
    THEN [raised |-> TRUE, ret |-> ""]
    ELSE [raised |-> FALSE, ret |-> JoinLines(ascii_rows.items, Len(ascii_rows.items))]

(***************************************************************************)
(* Inputs of the model                                                     *)
(***************************************************************************)
MaxLevel == 3

MaxBoost == 2

MaxCustomLen == 2

\* channel values: MaxLevel + 1 evenly spread ones, and those of the spec's scenario
Levels == {(255 * k) \div MaxLevel : k \in 0..MaxLevel} \cup {0, 64, 128, 255}

\* grey pixels, and pixels whose maximum is not the red channel
Pixels == {<<l, l, l>> : l \in Levels} \cup {<<0, l, l \div 2>> : l \in {128, 255}}

\* the float boosts -1.0, 1.0, 1.5, ... (MaxBoost + 1) / 2 and the int boosts
\* -1, 2, ... MaxBoost
Boosts ==
    {[int |-> FALSE, q |-> k] : k \in {-4} \cup {2 * j : j \in 2..(MaxBoost + 1)}}
    \cup {[int |-> TRUE, q |-> 4 * k] : k \in {-1} \cup 2..MaxBoost}

CustomGlyphs == <<"@", " ", ".", "#", "+">>

\* caller-supplied ramps: "@", "@ ", ...
CustomRamps == {SubSeq(CustomGlyphs, 1, n) : n \in 1..MaxCustomLen}

BgColors == {None, <<0, 0, 64>>}

(***************************************************************************)
(* The converter after construction, and its operations                    *)
(***************************************************************************)
\* AsciiConverter(char_set): __init__ keeps the name "standard" for any ramp
\* before anything of the application is constructed: the class attributes
\* of logger.py lines 29-30 and config.py lines 32-33, a logger without level
\* (NOTSET) and handlers, LiveWallpaper.__init__ (0 stands for thread = None)
\* and CLI.__init__
InitApp ==
    /\ Logger = [initialized |-> FALSE, level |-> "NOTSET", handlers |-> <<>>]
    /\ Config = [initialized |-> FALSE, level |-> "INFO", log_to_file |-> TRUE]
    /\ LiveWallpaper = [running |-> FALSE, thread |-> 0, workers |-> <<>>,
                        main |-> "idle"]
    /\ CLI = [image_processor |-> FALSE, image |-> NoneArray,
              ascii_result |-> NoneRows, pc |-> "prompt", args |-> <<>>]

InitConverter(ramp) ==
    /\ char_set = IF ramp # None THEN ramp ELSE char_sets("standard")
    /\ char_set_name = "standard"
    /\ directional_mode = FALSE
    /\ active_scheme = "full_rgb"
    /\ output_mode = "terminal"
    /\ promotion \in {"legacy", "weak"}
    /\ InitApp
    /\ call = [op |-> "init"]

config == <<char_set, char_set_name, directional_mode, active_scheme, output_mode>>

SetCharSet(set_name, custom_chars) ==
    LET after == set_char_set(set_name, custom_chars)
    IN  /\ char_set' = after[1]
        /\ char_set_name' = after[2]
        /\ call' = [op |-> "set_char_set", set_name |-> set_name,
                    custom_chars |-> custom_chars, before |-> config, ret |-> after[1]]
        /\ UNCHANGED <<directional_mode, active_scheme, output_mode, promotion, app>>

PixelToAscii(pixel, colored, bg_color, invert, brightness_boost) ==
    /\ call' = [op |-> "pixel_to_ascii", pixel |-> pixel, colored |-> colored,
                bg_color |-> bg_color, invert |-> invert,
                brightness_boost |-> brightness_boost]
               @@ pixel_to_ascii(pixel, 0, 0, NoneArray, colored, bg_color, invert,
                                 brightness_boost)
    /\ UNCHANGED <<config, promotion, app>>

\* pixel mapping on a converter whose ramp is the default, a caller's or a preset
InitPixel == \E ramp \in {None} \cup CustomRamps : InitConverter(ramp)

PixelSetNames == {"minimal", "detailed", "unknown"}

NextPixel ==
    \/ \E set_name \in PixelSetNames : SetCharSet(set_name, None)
    \/ \E pixel \in Pixels, colored \in BOOLEAN, invert \in BOOLEAN,
          brightness_boost \in Boosts :
          PixelToAscii(pixel, colored, None, invert, brightness_boost)

SpecPixel == InitPixel /\ [][NextPixel]_vars

(***************************************************************************)
(* Claims about pixel_to_ascii (SpecPixel)                                 *)
(***************************************************************************)
IsPixelCall == call.op = "pixel_to_ascii"

\* the intensity the claims speak of
MaxChannel(pixel) == Max3(pixel[1], pixel[2], pixel[3])

\* intensity * boost was computed without the uint8 wrap-around of numpy 2
NoWrap(brightness_boost) == ~brightness_boost.int \/ promotion = "legacy"

IsFloat(brightness_boost, q) == ~brightness_boost.int /\ brightness_boost.q = q

\* clamp(max(R,G,B) * brightness_boost, 0, 255) in quarters, in exact arithmetic
ExactAdjusted(pixel, brightness_boost) ==
    Max(0, Min(4 * 255, MaxChannel(pixel) * brightness_boost.q))

\* the value mapped onto the ramp, in quarters
ExactMapped(pixel, invert, brightness_boost) ==
    IF invert THEN 4 * 255 - ExactAdjusted(pixel, brightness_boost)
    ELSE ExactAdjusted(pixel, brightness_boost)

\* the nearest integer to a / b (a >= 0, b > 0), a tie going to the even one
RoundDiv(a, b) ==
    LET q == a \div b
        r == a % b
    IN  IF 2 * r > b \/ (2 * r = b /\ q % 2 = 1) THEN q + 1 ELSE q

\* C1: whenever pixel_to_ascii maps a pixel, the index it uses lies in
\* [0, N-1] and the uncoloured result is the ramp's glyph at that index; a
\* call that fails indexes nothing and returns the fallback space.
IndexInRamp ==
    IsPixelCall =>
        IF call.raised THEN call.ret = Str(" ")
        ELSE /\ call.char_index \in 0..(Len(char_set) - 1)
             /\ ~call.colored => call.ret = Str(char_set[call.char_index + 1])

\* the clamp acted: boost -1.0 inverted maps intensity 255 to twice the ramp
IndexInRampWitness ==
    /\ IsPixelCall /\ ~call.raised /\ call.invert
    /\ IsFloat(call.brightness_boost, -4)
    /\ MaxChannel(call.pixel) = 255
    /\ Len(char_set) = 10
    /\ call.char_index = 9

IsScenarioCall ==
    /\ IsPixelCall /\ ~call.raised /\ ~call.invert /\ ~call.colored
    /\ IsFloat(call.brightness_boost, 4)
    /\ char_set = <<"@", " ">>
    /\ call.pixel \in {<<255, 255, 255>>, <<0, 0, 0>>, <<128, 128, 128>>, <<64, 64, 64>>}

IndexFromMaxChannel ==
    IsPixelCall /\ ~call.raised =>
        call.char_index =
            ClampIndex((ExactMapped(call.pixel, call.invert, call.brightness_boost)
                            * (Len(char_set) - 1)) \div (4 * 255),
                       Len(char_set))

(***************************************************************************)
(* Configuration: ramp, directional mode, colour scheme, output mode       *)
(***************************************************************************)
\* set_directional_mode(enabled): <<directional_mode afterwards, return value>>
set_directional_mode(enabled) == <<enabled, TRUE>>

SetDirectionalMode(enabled) ==
    LET after == set_directional_mode(enabled)
    IN  /\ directional_mode' = after[1]
        /\ call' = [op |-> "set_directional_mode", enabled |-> enabled,
                    before |-> config, ret |-> after[2]]
        /\ UNCHANGED <<char_set, char_set_name, active_scheme, output_mode, promotion, app>>

SetColorScheme(scheme_name) ==
    LET after == set_color_scheme(scheme_name)
    IN  /\ active_scheme' = after[1]
        /\ call' = [op |-> "set_color_scheme", scheme_name |-> scheme_name,
                    before |-> config, ret |-> after[2]]
        /\ UNCHANGED <<char_set, char_set_name, directional_mode, output_mode, promotion, app>>

SetOutputMode(mode) ==
    LET after == set_output_mode(mode)
    IN  /\ output_mode' = after[1]
        /\ call' = [op |-> "set_output_mode", mode |-> mode,
                    before |-> config, ret |-> after[2]]
        /\ UNCHANGED <<char_set, char_set_name, directional_mode, active_scheme, promotion, app>>

\* apply_color(char, rgb, bg_color); missing: the lookup of line 89 found no
\* scheme under active_scheme
ApplyColor(char, rgb, bg_color) ==
    /\ call' = [op |-> "apply_color", char |-> char, rgb |-> rgb,
                bg_color |-> bg_color, before |-> config,
                missing |-> active_scheme \notin SchemeNames,
                ret |-> apply_color(char, rgb, bg_color)]
    /\ UNCHANGED <<config, promotion, app>>

\* names a caller may pass: presets, and names that are no preset
ConfigSetNames == {"manga", "bright", "unknown", "Standard", ""}

\* the registered schemes, and names that are not registered
ConfigSchemeNames == SchemeNames \cup {"sepia", "NEON", ""}

\* modes, format names, and names that are neither, in either case
ConfigModes == {"terminal", "html", "image", "png", "jpg", "txt", "htm",
                "PNG", "HTML", "Image", "Terminal", "pdf", "PDF", ""}

InitConfig == InitConverter(None)

NextConfig ==
    \/ \E set_name \in ConfigSetNames : SetCharSet(set_name, None)
    \/ \E set_name \in {"bright", "unknown"}, custom_chars \in CustomRamps :
          SetCharSet(set_name, custom_chars)
    \/ \E enabled \in BOOLEAN : SetDirectionalMode(enabled)
    \/ \E scheme_name \in ConfigSchemeNames : SetColorScheme(scheme_name)
    \/ \E mode \in ConfigModes : SetOutputMode(mode)
    \/ \E bg_color \in BgColors : ApplyColor("#", <<0, 128, 64>>, bg_color)

SpecConfig == InitConfig /\ [][NextConfig]_vars

(***************************************************************************)
(* Claims about the configuration (SpecConfig)                             *)
(***************************************************************************)
\* the fields of a recorded pre-state
BeforeCharSet == call.before[1]

BeforeCharSetName == call.before[2]

BeforeScheme == call.before[4]

BeforeOutputMode == call.before[5]

IsUnknownPresetCall ==
    /\ call.op = "set_char_set"
    /\ call.custom_chars = None
    /\ call.set_name \notin PresetNames

\* C8: set_char_set with a name that is no preset, and no custom characters,
\* leaves the active ramp and the recorded ramp name as they were before the
\* call and returns the unchanged ramp.
UnknownPresetKeepsRamp ==
    IsUnknownPresetCall =>
        /\ char_set = BeforeCharSet
        /\ char_set_name = BeforeCharSetName
        /\ call.ret = BeforeCharSet

\* an unknown name arrives while a preset other than the default is active
UnknownPresetKeepsRampWitness ==
    /\ IsUnknownPresetCall
    /\ call.set_name = "unknown"
    /\ BeforeCharSetName = "manga"
    /\ char_set = char_sets("manga")
    /\ call.ret = char_sets("manga")

IsUnknownSchemeCall ==
    /\ call.op = "set_color_scheme"
    /\ call.scheme_name \notin {"full_rgb", "pastel", "neon", "grayscale"}

\* C9: set_color_scheme with a name outside {full_rgb, pastel, neon,
\* grayscale} returns False and leaves the active scheme unchanged; the
\* active scheme is always one of the four registered schemes, and no
\* apply_color call looks up a missing scheme.
SchemeAlwaysRegistered ==
    /\ active_scheme \in {"full_rgb", "pastel", "neon", "grayscale"}
    /\ IsUnknownSchemeCall => (call.ret = FALSE /\ active_scheme = BeforeScheme)
    /\ call.op = "apply_color" => ~call.missing

\* an unregistered name is refused while "neon" is active
SchemeAlwaysRegisteredWitness ==
    /\ IsUnknownSchemeCall
    /\ call.scheme_name = "sepia"
    /\ call.ret = FALSE
    /\ BeforeScheme = "neon"
    /\ active_scheme = "neon"

\* names that set_output_mode recognises, compared in lower case
RecognisedModeNames ==
    {"terminal", "html", "image", "png", "jpg", "jpeg", "bmp", "gif", "txt",
     "text", "htm"}

IsUnrecognisedModeCall ==
    /\ call.op = "set_output_mode"
    /\ Lower(call.mode) \notin RecognisedModeNames

\* C10: after any sequence of set_output_mode calls on a default-constructed
\* handler, output_mode is one of terminal, html, image; a call with an
\* unrecognised name returns False and leaves output_mode as it was.
OutputModeAlwaysValid ==
    /\ output_mode \in {"terminal", "html", "image"}
    /\ IsUnrecognisedModeCall => (call.ret = FALSE /\ output_mode = BeforeOutputMode)

\* an unrecognised name is refused while the mode is "image"
OutputModeAlwaysValidWitness ==
    /\ IsUnrecognisedModeCall
    /\ call.mode = "pdf"
    /\ BeforeOutputMode = "image"
    /\ output_mode = "image"
    /\ call.ret = FALSE

(***************************************************************************)
(* The colour schemes as functions of a colour                             *)
(***************************************************************************)
\* self.color_schemes[scheme](*rgb), line 89 of apply_color
ApplyScheme(scheme, rgb) ==
    /\ call' = [op |-> "color_scheme", scheme |-> scheme, rgb |-> rgb,
                ret |-> color_schemes(scheme, rgb[1], rgb[2], rgb[3])]
    /\ UNCHANGED <<config, promotion, app>>

\* channel values of the colours: those of the pixels, and two more
ColorLevels == Levels \cup {9, 182}

\* greys, blues, and colours whose largest channel is the red one
Colors ==
    {<<l, l, l>> : l \in ColorLevels}
    \cup {<<0, 0, l>> : l \in ColorLevels}
    \cup {<<l, l \div 2, 0>> : l \in ColorLevels}

InitColor == InitConverter(None)

NextColor == \E scheme \in SchemeNames, rgb \in Colors : ApplyScheme(scheme, rgb)

SpecColor == InitColor /\ [][NextColor]_vars

(***************************************************************************)
(* Claims about the colour schemes (SpecColor)                             *)
(***************************************************************************)
IsSchemeCall(scheme) == call.op = "color_scheme" /\ call.scheme = scheme

\* C6: the grayscale transform is idempotent: applied to its own result it
\* returns that result.
GrayscaleIdempotent ==
    IsSchemeCall("grayscale") =>
        to_grayscale(call.ret[1], call.ret[2], call.ret[3]) = call.ret

\* min(255/m, 1.5) * c in exact arithmetic, truncated and clamped to 255
NeonReference(rgb) ==
    LET m == Max3(rgb[1], rgb[2], rgb[3])
        ch(c) == IF 2 * 255 <= 3 * m
                 THEN Min((c * 255) \div m, 255)
                 ELSE Min((c * 3) \div 2, 255)
    IN  IF m = 0 THEN <<0, 0, 0>> ELSE <<ch(rgb[1]), ch(rgb[2]), ch(rgb[3])>>

\* C7: neon(0,0,0) = (0,0,0), and for m = max(r,g,b) > 0 each output channel
\* is the input channel times min(255/m, 1.5), truncated to an integer and
\* clamped to 255.
NeonMatchesReference ==
    IsSchemeCall("neon") => call.ret = NeonReference(call.rgb)

(***************************************************************************)
(* Whole buffers: image_to_ascii, then to_string                           *)
(***************************************************************************)
MaxDim == 2

\* a height x width buffer of one pixel value
UniformArray(height, width, pixel) ==
    [shape |-> <<height, width>>,
     data  |-> [y \in 0..(height - 1) |-> [x \in 0..(width - 1) |-> pixel]]]

\* the 2 x 2 buffer with intensities 255, 0 / 128, 64
ScenarioArray ==
    [shape |-> <<2, 2>>,
     data  |-> [y \in 0..1 |-> [x \in 0..1 |->
                  LET l == << <<255, 0>>, <<128, 64>> >>[y + 1][x + 1]
                  IN  <<l, l, l>>]]]

ImageArrays ==
    {UniformArray(h, w, p) : h \in 1..MaxDim, w \in 1..MaxDim,
                             p \in {<<0, 0, 0>>, <<255, 255, 255>>, <<0, 128, 64>>}}
    \cup {UniformArray(0, 0, <<0, 0, 0>>), ScenarioArray}

\* the float 1.0
BoostOne == [int |-> FALSE, q |-> 4]

\* image_to_ascii that leaves the colour handler in image mode
ImageToAsciiSwitching(image_array, colored, bg_color, invert, brightness_boost) ==
    /\ call' = [op |-> "image_to_ascii", image_array |-> image_array,
                colored |-> colored, bg_color |-> bg_color, invert |-> invert,
                brightness_boost |-> brightness_boost,
                ret |-> image_to_ascii(image_array, colored, bg_color, invert,
                                       brightness_boost)]
    /\ output_mode' = "image"
    /\ UNCHANGED <<char_set, char_set_name, directional_mode, active_scheme, promotion, app>>

ImageToAscii(image_array, colored, bg_color, invert, brightness_boost) ==
    /\ call' = [op |-> "image_to_ascii", image_array |-> image_array,
                colored |-> colored, bg_color |-> bg_color, invert |-> invert,
                brightness_boost |-> brightness_boost,
                ret |-> image_to_ascii(image_array, colored, bg_color, invert,
                                       brightness_boost)]
    /\ UNCHANGED <<config, promotion, app>>

\* to_string on the rows the last conversion returned
RenderText ==
    /\ call.op = "image_to_ascii"
    /\ call' = [op |-> "to_string", ascii_rows |-> call.ret, grid_of |-> call]
               @@ to_string(call.ret)
    /\ UNCHANGED <<config, promotion, app>>

\* to_string on None
RenderAbsent ==
    /\ call' = [op |-> "to_string", ascii_rows |-> NoneRows,
                grid_of |-> [op |-> "none"]]
               @@ to_string(NoneRows)
    /\ UNCHANGED <<config, promotion, app>>

InitImage == InitConverter(None)

NextImage ==
    \/ \E mode \in valid_modes : SetOutputMode(mode)
    \/ \E image_array \in ImageArrays, colored \in BOOLEAN :
          ImageToAscii(image_array, colored, None, FALSE, BoostOne)
    \/ RenderText
    \/ RenderAbsent

SpecImage == InitImage /\ [][NextImage]_vars

(***************************************************************************)
(* Claims about whole buffers (SpecImage)                                  *)
(***************************************************************************)
\* n copies of s with sep between them
RECURSIVE Repeat(_, _, _)
Repeat(s, n, sep) ==
    IF n = 0 THEN ""
    ELSE IF n = 1 THEN s
    ELSE Repeat(s, n - 1, sep) \o sep \o s

\* the intensities that occur in the buffer
IntensitiesOf(image_array) ==
    {MaxChannel(image_array.data[y][x]) :
        y \in 0..(image_array.shape[1] - 1), x \in 0..(image_array.shape[2] - 1)}

\* to_string was applied to the conversion of a uniform buffer with the
\* ramp "@%#*+=-:. ", brightness_boost 1.0, invert off and no colour
IsUniformRender ==
    /\ call.op = "to_string"
    /\ call.grid_of.op = "image_to_ascii"
    /\ char_set = <<"@", "%", "#", "*", "+", "=", "-", ":", ".", " ">>
    /\ Cardinality(IntensitiesOf(call.grid_of.image_array)) <= 1
    /\ ~call.grid_of.colored
    /\ ~call.grid_of.invert
    /\ IsFloat(call.grid_of.brightness_boost, 4)

\* C4: a W x H buffer of one intensity, converted with the ramp "@%#*+=-:. ",
\* brightness_boost 1.0, invert off and no colour and passed to to_string,
\* gives H lines of W identical glyphs separated by newlines, all '@' at
\* intensity 0 and all ' ' at intensity 255.
UniformBufferRendersUniformText ==
    IsUniformRender =>
        LET image_array == call.grid_of.image_array
            H == image_array.shape[1]
            W == image_array.shape[2]
        IN  /\ ~call.raised
            /\ \E i \in 1..Len(char_set) :
                  /\ call.ret = Repeat(Repeat(char_set[i], W, ""), H, "\n")
                  /\ IntensitiesOf(image_array) = {0} => char_set[i] = "@"
                  /\ IntensitiesOf(image_array) = {255} => char_set[i] = " "

(***************************************************************************)
(* Directional mode: set_char_set, set_directional_mode, then the mapping  *)
(* of a pixel of a buffer, or of the whole buffer                          *)
(***************************************************************************)
MaxSide == 3

\* a height x width buffer of grey pixels with one edge: pixels on the far
\* side of the edge have level contrast[2], the others contrast[1]
EdgeArray(height, width, kind, contrast) ==
    [shape |-> <<height, width>>,
     data  |-> [y \in 0..(height - 1) |-> [x \in 0..(width - 1) |->
                  LET far == CASE kind = "vertical"   -> x >= 1
                               [] kind = "horizontal" -> y >= 1
                               [] kind = "diagonal"   -> x + y >= 2
                               [] kind = "rising"     -> x >= y
                               [] kind = "step"       -> x >= 2 \/ (x = 1 /\ y >= 2)
                      l == IF far THEN contrast[2] ELSE contrast[1]
                  IN  <<l, l, l>>]]]

EdgeKinds == {"vertical", "horizontal", "diagonal", "rising"}

\* black to white, white to black, a faint edge, no edge
Contrasts == {<<0, 255>>, <<255, 0>>, <<0, 4>>, <<128, 128>>}

EdgeArrays(sides, contrasts) ==
    {EdgeArray(h, w, kind, contrast) :
        h \in sides, w \in sides, kind \in EdgeKinds, contrast \in contrasts}

\* pixel_to_ascii as image_to_ascii calls it for the pixel at (y, x), line 147
PixelAt(image_array, x, y, colored, bg_color, invert, brightness_boost) ==
    /\ call' = [op |-> "pixel_to_ascii", pixel |-> image_array.data[y][x],
                x |-> x, y |-> y, image_array |-> image_array,
                colored |-> colored, bg_color |-> bg_color, invert |-> invert,
                brightness_boost |-> brightness_boost]
               @@ pixel_to_ascii(image_array.data[y][x], x, y, image_array,
                                 colored, bg_color, invert, brightness_boost)
    /\ UNCHANGED <<config, promotion, app>>

DirectionSetNames == {"manga", "diagonal", "minimal"}

InitDirection == InitConverter(None)

NextDirection ==
    \/ \E set_name \in DirectionSetNames : SetCharSet(set_name, None)
    \/ SetCharSet("manga", <<"#", " ">>)
    \/ \E enabled \in BOOLEAN : SetDirectionalMode(enabled)
    \/ \E image_array \in EdgeArrays({MaxSide}, Contrasts), x \in 0..1, y \in 0..1 :
          PixelAt(image_array, x, y, FALSE, None, FALSE, BoostOne)
    \/ \E image_array \in EdgeArrays({MaxSide}, Contrasts) :
          ImageToAscii(image_array, FALSE, None, FALSE, BoostOne)

SpecDirection == InitDirection /\ [][NextDirection]_vars

(***************************************************************************)
(* Claims about directional mode (SpecDirection)                           *)
(***************************************************************************)
IsPixelAtCall == call.op = "pixel_to_ascii" /\ "image_array" \in DOMAIN call

\* the glyph the intensity alone selects
IntensityGlyph == char_set[call.char_index + 1]

\* the direction detected at the focal pixel of the call
DetectedDirection == detect_direction(call.image_array, call.x, call.y)

DirectionGlyph(direction, glyph) ==
    IF direction \in {"ne", "sw"} THEN "/"
    ELSE IF direction \in {"nw", "se"} THEN "\\"
    ELSE IF direction \in {"n", "s"} THEN "|"
    ELSE IF direction \in {"e", "w"} THEN "-"
    ELSE glyph

IsOverrideCall ==
    /\ IsPixelAtCall
    /\ directional_mode
    /\ char_set_name \in {"manga", "diagonal"}

\* the focal pixel of the call is pixel (1, 1) of the edge buffer of this
\* kind, black to white
IsEdgeCall(kind) ==
    /\ call.x = 1
    /\ call.y = 1
    /\ call.image_array = EdgeArray(MaxSide, MaxSide, kind, <<0, 255>>)

\* C11: with directional mode enabled, a buffer supplied and the manga or
\* diagonal preset active, the glyph of a pixel is the character of the
\* direction detected at that pixel ('/' for ne and sw, '\' for nw and se,
\* '|' for n and s, '-' for e and w) and the intensity-derived glyph when
\* the direction is none; a black-to-white vertical edge gives '-', a
\* horizontal one '|' and a diagonal one '/'.
DirectionOverridesGlyph ==
    IsOverrideCall =>
        /\ call.ret = Str(DirectionGlyph(DetectedDirection, IntensityGlyph))
        /\ IsEdgeCall("vertical") => call.ret = Str("-")
        /\ IsEdgeCall("horizontal") => call.ret = Str("|")
        /\ IsEdgeCall("diagonal") => call.ret = Str("/")

\* an override took place: a diagonal edge under the pixel gave '/'
DirectionOverridesGlyphWitness ==
    /\ IsOverrideCall
    /\ DetectedDirection = "ne"
    /\ IntensityGlyph # "/"
    /\ call.ret = Str("/")
IsImageCall == call.op = "image_to_ascii"

\* the glyph the intensity of pixel (y, x) of the call's buffer selects
PlainGlyph(y, x) ==
    char_set[CharIndex(call.image_array.data[y][x], call.invert,
                       call.brightness_boost).index + 1]

\* the first n glyphs of row y, as a str
RECURSIVE PlainRowText(_, _)
PlainRowText(y, n) ==
    IF n = 0 THEN "" ELSE PlainRowText(y, n - 1) \o PlainGlyph(y, n - 1)

\* the uncoloured text grid a conversion without directional mode returns
PlainGrid ==
    List([j \in 1..call.image_array.shape[1] |->
            Str(PlainRowText(j - 1, call.image_array.shape[2]))])

\* C12: for every active ramp other than the manga and diagonal presets
\* (custom ramps included), a conversion returns the grid of the
\* intensity-derived glyphs whether directional mode is enabled or disabled,
\* so both settings produce exactly the same grid.
DirectionalModeInertOnOtherRamps ==
    (IsImageCall /\ char_set_name \notin {"manga", "diagonal"}) =>
        call.ret = PlainGrid

\* a custom ramp, directional mode enabled, and a buffer with an edge that
\* detect_direction reports
DirectionalModeInertWitness ==
    /\ IsImageCall
    /\ directional_mode
    /\ char_set_name = "custom"
    /\ detect_direction(call.image_array, 1, 1) = "e"
    /\ call.ret = PlainGrid
(***************************************************************************)
(* detect_direction at the pixels of a buffer                              *)
(***************************************************************************)
\* edges at and just below the threshold of line 206, in both directions
FaintContrasts == {<<0, 5>>, <<5, 0>>, <<4, 0>>, <<0, 20>>}

\* a buffer whose pixels are not grey: the means of line 193 are 85 and 84
TintedArray(height, width) ==
    [shape |-> <<height, width>>,
     data  |-> [y \in 0..(height - 1) |-> [x \in 0..(width - 1) |->
                  IF x >= 1 THEN <<255, 0, 0>> ELSE <<254, 0, 0>>]]]

DetectArrays ==
    EdgeArrays(1..MaxSide, Contrasts \cup FaintContrasts)
    \cup {TintedArray(MaxSide, MaxSide),
          EdgeArray(MaxSide, MaxSide, "step", <<0, 255>>)}

\* the converter and the buffer the detection is run on
InitDetect ==
    /\ char_set = char_sets("standard")
    /\ char_set_name = "standard"
    /\ directional_mode = FALSE
    /\ active_scheme = "full_rgb"
    /\ output_mode = "terminal"
    /\ promotion \in {"legacy", "weak"}
    /\ InitApp
    /\ call \in {[op |-> "buffer", image_array |-> image_array] :
                    image_array \in DetectArrays}

DetectDirection(x, y) ==
    /\ call' = [op |-> "detect_direction", image_array |-> call.image_array,
                x |-> x, y |-> y,
                ret |-> detect_direction(call.image_array, x, y)]
    /\ UNCHANGED <<config, promotion, app>>

NextDetect ==
    \E y \in 0..(call.image_array.shape[1] - 1),
       x \in 0..(call.image_array.shape[2] - 1) : DetectDirection(x, y)

SpecDetect == InitDetect /\ [][NextDetect]_vars

(***************************************************************************)
(* Claims about detect_direction (SpecDetect)                              *)
(***************************************************************************)
IsDetectCall == call.op = "detect_direction"

\* the focal pixel lies in the first or last row or column of the buffer
OnBorder ==
    \/ call.y = 0
    \/ call.y = call.image_array.shape[1] - 1
    \/ call.x = 0
    \/ call.x = call.image_array.shape[2] - 1

\* the buffer is narrower or shorter than 3
IsNarrow == call.image_array.shape[1] < 3 \/ call.image_array.shape[2] < 3

\* the grey level of the pixel at offset (dy, dx) from the focal pixel
GrayAt(dy, dx) ==
    (call.image_array.data[call.y + dy][call.x + dx][1]
     + call.image_array.data[call.y + dy][call.x + dx][2]
     + call.image_array.data[call.y + dy][call.x + dx][3]) \div 3

\* the Sobel magnitudes of the window around the focal pixel
SobelX ==
    Abs((GrayAt(-1, 1) + 2 * GrayAt(0, 1) + GrayAt(1, 1))
        - (GrayAt(-1, -1) + 2 * GrayAt(0, -1) + GrayAt(1, -1)))

SobelY ==
    Abs((GrayAt(1, -1) + 2 * GrayAt(1, 0) + GrayAt(1, 1))
        - (GrayAt(-1, -1) + 2 * GrayAt(-1, 0) + GrayAt(-1, 1)))

IsUniformWindow ==
    \A dy \in -1..1, dx \in -1..1 :
        call.image_array.data[call.y + dy][call.x + dx]
            = call.image_array.data[call.y][call.x]

IsColumn(dx, l) == \A dy \in -1..1 : GrayAt(dy, dx) = l

\* the left column of the window is black, the right one white, and the
\* horizontal gradient is at least four times the vertical one
IsStrongVerticalEdge ==
    /\ ~OnBorder
    /\ IsColumn(-1, 0)
    /\ IsColumn(1, 255)
    /\ SobelX >= 4 * SobelY

\* C14: for every buffer and focal pixel detect_direction returns one of
\* none, e, ne, n, never s, sw, w, nw or se; a window whose left column is
\* black and right column is white, with gx much larger than gy, gives 'e'.
OnlyFirstQuadrantDirections ==
    IsDetectCall =>
        /\ call.ret \in {"none", "e", "ne", "n"}
        /\ IsStrongVerticalEdge => call.ret = "e"

\* the black-to-white vertical edge at an interior pixel
OnlyFirstQuadrantDirectionsWitness ==
    /\ IsDetectCall
    /\ IsStrongVerticalEdge
    /\ SobelX = 1020
    /\ call.ret = "e"
(***************************************************************************)
(* Whole buffers in every output mode: absent, zero-size and non-empty     *)
(* buffers, with and without colour, with arguments that make the mapping  *)
(* of a pixel fail                                                         *)
(***************************************************************************)
\* buffers of 0 x 0 up to MaxDim x MaxDim, and no buffer
GridArrays ==
    {UniformArray(h, w, p) : h \in 0..MaxDim, w \in 0..MaxDim,
                             p \in {<<0, 0, 0>>, <<0, 128, 64>>}}
    \cup {ScenarioArray, NoneArray}

\* no background, a background, and a background that is no RGB triple
GridBgColors == {None, <<0, 0, 64>>, <<0, 0>>}

\* the float 1.0 and the int -1
GridBoosts == {BoostOne, [int |-> TRUE, q |-> -4]}

InitGrid == InitConverter(None)

NextGrid ==
    \/ \E mode \in valid_modes : SetOutputMode(mode)
    \/ \E image_array \in GridArrays, brightness_boost \in GridBoosts :
          ImageToAscii(image_array, FALSE, None, FALSE, brightness_boost)
    \/ \E image_array \in GridArrays, bg_color \in GridBgColors,
          brightness_boost \in GridBoosts :
          ImageToAscii(image_array, TRUE, bg_color, FALSE, brightness_boost)

SpecGrid == InitGrid /\ [][NextGrid]_vars

(***************************************************************************)
(* Claims about whole buffers (SpecGrid)                                   *)
(***************************************************************************)
\* the buffer of the call is absent, or has height 0 or width 0
IsEmptyBuffer ==
    \/ call.image_array = NoneArray
    \/ call.image_array.shape[1] = 0
    \/ call.image_array.shape[2] = 0

\* C15: image_to_ascii returns an empty grid whenever the buffer is absent
\* or zero-size (height 0 or width 0), so that no renderer is handed rows
\* without cells.
EmptyBufferGivesEmptyGrid ==
    (IsImageCall /\ IsEmptyBuffer) => call.ret = List(<<>>)
IsGridCall == IsImageCall /\ ~IsEmptyBuffer

\* the number of cells of a list row, of characters of a str row
RowLength(row) == IF row.type = "list" THEN Len(row.items) ELSE Len(row.text)

\* the mapping of pixel (y, x) of the call's buffer
CellOf(y, x) ==
    pixel_to_ascii(call.image_array.data[y][x], x, y, call.image_array,
                   call.colored, call.bg_color, call.invert,
                   call.brightness_boost).ret

\* the strings of the first n cells of row y, left to right
RECURSIVE CellsText(_, _)
CellsText(y, n) ==
    IF n = 0 THEN "" ELSE CellsText(y, n - 1) \o CellOf(y, n - 1).text

\* row y of the grid, for a buffer of the given width
IsRowOf(row, y, width) ==
    IF output_mode = "image"
    THEN /\ row.type = "list"
         /\ Len(row.items) = width
         /\ \A x \in 0..(width - 1) : row.items[x + 1] = CellOf(y, x)
    ELSE /\ row = Str(CellsText(y, width))
         /\ ~call.colored => Len(row.text) = width

IntensityFails(y, x) ==
    CharIndex(call.image_array.data[y][x], call.invert,
              call.brightness_boost).raised

\* the mapping of a pixel fails in the colour application (lines 87-115)
ColorFails ==
    /\ call.colored
    /\ output_mode # "image"
    /\ call.bg_color # None
    /\ Len(call.bg_color) # 3

\* the cell the claim expects for pixel (y, x)
ExpectedCell(y, x) ==
    IF IntensityFails(y, x) \/ ColorFails THEN Str(" ") ELSE CellOf(y, x)

RECURSIVE ExpectedText(_, _)
ExpectedText(y, n) ==
    IF n = 0 THEN "" ELSE ExpectedText(y, n - 1) \o ExpectedCell(y, n - 1).text

IsExpectedRow(row, y, width) ==
    IF output_mode = "image"
    THEN /\ row.type = "list"
         /\ Len(row.items) = width
         /\ \A x \in 0..(width - 1) : row.items[x + 1] = ExpectedCell(y, x)
    ELSE row = Str(ExpectedText(y, width))

\* C17: a failure while mapping a pixel, in the intensity mapping or in the
\* colour application, is not propagated: the grid is the full H x W grid,
\* the cell of a pixel whose mapping failed is a single space without
\* colour, and every other cell is the mapping of its pixel.
FailedCellIsBlank ==
    IsGridCall =>
        /\ Len(call.ret.items) = call.image_array.shape[1]
        /\ \A j \in 1..Len(call.ret.items) :
              IsExpectedRow(call.ret.items[j], j - 1, call.image_array.shape[2])
(***************************************************************************)
(* ImageProcessor.calculate_ascii_dimensions                               *)
(*                                                                         *)
(* output_width, output_height and font_size are Python ints.  The result  *)
(* is [raised |-> whether ZeroDivisionError left the method, ret |-> the    *)
(* tuple (cols, rows) returned].                                           *)
(***************************************************************************)
Lit06 == Lit(6, 10)

DivisionByZero == [raised |-> TRUE, ret |-> None]

\* lines 92-101: the grid after the aspect ratio correction
aspect_corrected(font_size, char_width, raw_cols, raw_rows, target_aspect_ratio, grid_aspect_ratio) ==
    IF FGreater(target_aspect_ratio, grid_aspect_ratio)
    THEN <<raw_cols,
           FTrunc(FMul(FDiv(FInt(raw_cols, 0), target_aspect_ratio),
                       FDivInt(char_width, font_size)))>>
    ELSE <<FTrunc(FMul(FMulInt(target_aspect_ratio, raw_rows),
                       FDiv(FInt(font_size, 0), char_width))),
           raw_rows>>

\* lines 85-101: cols and rows
grid_dimensions(output_width, output_height, font_size, char_aspect_correction, char_width, raw_cols, raw_rows) ==
    IF char_aspect_correction
    THEN aspect_corrected(font_size, char_width, raw_cols, raw_rows,
                          FDivInt(FInt(output_width, 0), output_height),
                          FDivInt(FMulInt(char_width, raw_cols),
                                  raw_rows * font_size))
    ELSE <<raw_cols, raw_rows>>

\* lines 103-106: the debug message divides cols by rows
logged_dimensions(dims) ==
    IF dims[2] = 0 THEN DivisionByZero ELSE [raised |-> FALSE, ret |-> dims]

\* lines 85-106: line 88 divides by raw_rows * char_height
dimensions_of_raw(output_width, output_height, font_size, char_aspect_correction, char_width, raw_cols, raw_rows) ==
    IF raw_rows * font_size = 0 THEN DivisionByZero
    ELSE logged_dimensions(grid_dimensions(output_width, output_height,
                                           font_size, char_aspect_correction,
                                           char_width, raw_cols, raw_rows))

\* lines 78-106 for char_width = font_size * 0.6
dimensions_of_cell(output_width, output_height, font_size, char_aspect_correction, char_width) ==
    dimensions_of_raw(output_width, output_height, font_size,
                      char_aspect_correction, char_width,
                      FTrunc(FDiv(FInt(output_width, 0), char_width)),
                      FTrunc(FDivInt(FInt(output_height, 0), font_size)))

calculate_ascii_dimensions(output_width, output_height, font_size, char_aspect_correction) ==
    IF output_width = 0 \/ output_height = 0
    THEN [raised |-> FALSE, ret |-> <<None, None>>]
    ELSE dimensions_of_cell(output_width, output_height, font_size,
                            char_aspect_correction, FMulInt(Lit06, font_size))
MaxTarget == 10

MaxFont == 7

\* the processor's caller holds a target size in pixels and a font size; the
\* converter is as constructed (the method does no numpy arithmetic)
InitDims ==
    /\ char_set = char_sets("standard")
    /\ char_set_name = "standard"
    /\ directional_mode = FALSE
    /\ active_scheme = "full_rgb"
    /\ output_mode = "terminal"
    /\ promotion = "legacy"
    /\ InitApp
    /\ call \in {[op |-> "target", output_width |-> w, output_height |-> h,
                  font_size |-> f] :
                    w \in 1..MaxTarget, h \in 1..MaxTarget, f \in 1..MaxFont}

CalculateAsciiDimensions(char_aspect_correction) ==
    /\ call.op = "target"
    /\ call' = [op |-> "calculate_ascii_dimensions",
                output_width |-> call.output_width,
                output_height |-> call.output_height,
                font_size |-> call.font_size,
                char_aspect_correction |-> char_aspect_correction]
               @@ calculate_ascii_dimensions(call.output_width, call.output_height,
                                             call.font_size, char_aspect_correction)
    /\ UNCHANGED <<config, promotion, app>>

NextDims == \E char_aspect_correction \in BOOLEAN :
                CalculateAsciiDimensions(char_aspect_correction)

SpecDims == InitDims /\ [][NextDims]_vars

(***************************************************************************)
(* Claims about calculate_ascii_dimensions (SpecDims)                      *)
(***************************************************************************)
IsDimsCall == call.op = "calculate_ascii_dimensions"

\* floor(target_width / cell_width) for cell_width = 0.6 * font_size
RawColsOf == (5 * call.output_width) \div (3 * call.font_size)

\* floor(target_height / cell_height) for cell_height = font_size
RawRowsOf == call.output_height \div call.font_size

\* C18: with aspect correction disabled calculate_ascii_dimensions returns
\* cols = floor(target_width / (0.6 * font_size)) and
\* rows = floor(target_height / font_size) for every positive target size
\* and font size, without raising, also when an axis of the target is
\* smaller than one cell (0 on that axis).
UncorrectedIsRawFloor ==
    (IsDimsCall /\ ~call.char_aspect_correction) =>
        /\ ~call.raised
        /\ call.ret = <<RawColsOf, RawRowsOf>>
\* C19: with aspect correction enabled, for every positive target size and
\* font size for which the raw floor is at least 1 on at least one axis,
\* calculate_ascii_dimensions returns normally with cols >= 1 and rows >= 1.
CorrectedGridIsPositive ==
    (/\ IsDimsCall
     /\ call.char_aspect_correction
     /\ (RawColsOf >= 1 \/ RawRowsOf >= 1)) =>
        /\ ~call.raised
        /\ call.ret[1] >= 1
        /\ call.ret[2] >= 1

\* C20: with aspect correction enabled the returned grid keeps the raw floor
\* on one axis and has, on the other, the floor of the exact value that
\* makes (cols * cell_width) / (rows * cell_height) equal to
\* target_width / target_height, and neither axis exceeds the number of
\* whole cells that fit in the target on that axis.
CorrectedGridMatchesTargetRatio ==
    (IsDimsCall /\ call.char_aspect_correction /\ ~call.raised) =>
        /\ \/ /\ call.ret[1] = RawColsOf
              /\ call.ret[2] = (3 * call.ret[1] * call.output_height)
                                   \div (5 * call.output_width)
           \/ /\ call.ret[2] = RawRowsOf
              /\ call.ret[1] = (5 * call.ret[2] * call.output_width)
                                   \div (3 * call.output_height)
        /\ call.ret[1] <= RawColsOf
        /\ call.ret[2] <= RawRowsOf
(***************************************************************************)
(* Claims about the text renderer (SpecImage)                              *)
(***************************************************************************)
IsRenderCall == call.op = "to_string"

\* the glyph the intensity of pixel (y, x) of the rendered conversion selects
GridGlyph(y, x) ==
    char_set[CharIndex(call.grid_of.image_array.data[y][x], call.grid_of.invert,
                       call.grid_of.brightness_boost).index + 1]

\* the first n glyphs of row y
RECURSIVE GridGlyphRow(_, _)
GridGlyphRow(y, n) ==
    IF n = 0 THEN "" ELSE GridGlyphRow(y, n - 1) \o GridGlyph(y, n - 1)

\* the first n rows of glyphs, a newline between consecutive rows
RECURSIVE GridGlyphLines(_)
GridGlyphLines(n) ==
    IF n = 0 THEN ""
    ELSE IF n = 1 THEN GridGlyphRow(0, call.grid_of.image_array.shape[2])
    ELSE GridGlyphLines(n - 1) \o "\n"
         \o GridGlyphRow(n - 1, call.grid_of.image_array.shape[2])

\* C21: to_string applied to a grid produced by image_to_ascii, in any
\* output mode and coloured or not, returns the glyphs of the rows only,
\* with a newline between consecutive rows and none after the last; applied
\* to absent input it returns the empty string; it never fails.
TextIsGlyphsOnly ==
    IsRenderCall =>
        /\ ~call.raised
        /\ call.ret = IF call.ascii_rows = NoneRows THEN ""
                      ELSE GridGlyphLines(call.grid_of.image_array.shape[1])

(***************************************************************************)
(* OutputFormatter.to_html                                                 *)
(***************************************************************************)
RECURSIVE JoinText(_, _)
\* ''.join(rows[:n])
JoinText(rows, n) ==
    IF n = 0 THEN "" ELSE JoinText(rows, n - 1) \o rows[n].text

\* lines 22-32: the default style sheet
default_css ==
    "\n            body { background-color: #000; margin: 0; padding: 10px; }"
    \o "\n            pre { \n                font-family: 'Courier New', monospace; "
    \o "\n                font-size: 10px;\n                line-height: 1.0;"
    \o "\n                letter-spacing: 0;\n                display: inline-block;"
    \o "\n            }\n            "

\* lines 34-43: the document around the text of the pre element
html_content(title, css, pre_text) ==
    "<!DOCTYPE html>\n        <html>\n        <head>\n            <title>" \o title
    \o "</title>\n            <style>" \o css
    \o "</style>\n        </head>\n        <body>\n            <pre>" \o pre_text
    \o "</pre>\n        </body>\n        </html>"

RECURSIVE JoinPre(_, _)
\* every row in a pre element of its own
JoinPre(rows, n) ==
    IF n = 0 THEN ""
    ELSE IF n = 1 THEN rows[1].text
    ELSE JoinPre(rows, n - 1) \o "</pre><pre>" \o rows[n].text

\* to_html with one pre element for each row
to_html_pre_per_row(ascii_rows, title, css) ==
    IF \/ ascii_rows.type # "list"
       \/ \E i \in 1..Len(ascii_rows.items) : ascii_rows.items[i].type # "str"
    THEN [raised |-> TRUE, ret |-> ""]
    ELSE [raised |-> FALSE,
          ret |-> html_content(title, IF css = "" THEN default_css ELSE css,
                               JoinPre(ascii_rows.items, Len(ascii_rows.items)))]

\* to_html(ascii_rows, title, css); ''.join raises TypeError as "\n".join does
to_html(ascii_rows, title, css) ==
    IF \/ ascii_rows.type # "list"
       \/ \E i \in 1..Len(ascii_rows.items) : ascii_rows.items[i].type # "str"
    THEN [raised |-> TRUE, ret |-> ""]
    ELSE [raised |-> FALSE,
          ret |-> html_content(title, IF css = "" THEN default_css ELSE css,
                               JoinText(ascii_rows.items, Len(ascii_rows.items)))]

\* to_html on the grid the last conversion returned
RenderHtml(title, css) ==
    /\ call.op = "image_to_ascii"
    /\ call' = [op |-> "to_html", ascii_rows |-> call.ret, title |-> title,
                css |-> css, grid_of |-> call]
               @@ to_html(call.ret, title, css)
    /\ UNCHANGED <<config, promotion, app>>

\* buffers whose pixels select '<' and '@' in the manga ramp
HtmlArrays ==
    {UniformArray(1, 2, <<10, 120, 30>>), UniformArray(2, 2, <<200, 0, 0>>),
     ScenarioArray}

InitHtml == InitConverter(None)

NextHtml ==
    \/ \E mode \in valid_modes : SetOutputMode(mode)
    \/ \E scheme_name \in SchemeNames : SetColorScheme(scheme_name)
    \/ SetCharSet("manga", None)
    \/ \E image_array \in HtmlArrays, colored \in BOOLEAN,
          bg_color \in {None, <<0, 0, 64>>} :
          ImageToAscii(image_array, colored, bg_color, FALSE, BoostOne)
    \/ \E css \in {"", "pre { color: red; }"} : RenderHtml("ASCII Art", css)

SpecHtml == InitHtml /\ [][NextHtml]_vars

(***************************************************************************)
(* Claims about the html output (SpecHtml)                                 *)
(***************************************************************************)
\* g is a coloured conversion of a buffer made in html mode
IsHtmlGrid(g) ==
    /\ g.op = "image_to_ascii"
    /\ output_mode = "html"
    /\ g.colored

\* the glyph the intensity of pixel (y, x) of conversion g selects
GlyphIn(g, y, x) ==
    char_set[CharIndex(g.image_array.data[y][x], g.invert,
                       g.brightness_boost).index + 1]

\* the foreground the active scheme gives pixel (y, x) of conversion g
ForegroundIn(g, y, x) ==
    color_schemes(active_scheme, g.image_array.data[y][x][1],
                  g.image_array.data[y][x][2], g.image_array.data[y][x][3])

\* the span claimed for cell (y, x) of conversion g
SpanIn(g, y, x) ==
    "<span style=\"color:rgb(" \o ToString(ForegroundIn(g, y, x)[1]) \o ","
    \o ToString(ForegroundIn(g, y, x)[2]) \o ","
    \o ToString(ForegroundIn(g, y, x)[3]) \o ");"
    \o (IF g.bg_color = None THEN ""
        ELSE "background-color:rgb(" \o ToString(g.bg_color[1]) \o ","
             \o ToString(g.bg_color[2]) \o "," \o ToString(g.bg_color[3]) \o ");")
    \o "\">" \o GlyphIn(g, y, x) \o "</span>"

\* the spans of the first n cells of row y
RECURSIVE SpansOfRow(_, _, _)
SpansOfRow(g, y, n) ==
    IF n = 0 THEN "" ELSE SpansOfRow(g, y, n - 1) \o SpanIn(g, y, n - 1)

\* the spans of the first n rows
RECURSIVE SpansOfRows(_, _)
SpansOfRows(g, n) ==
    IF n = 0 THEN ""
    ELSE SpansOfRows(g, n - 1) \o SpansOfRow(g, n - 1, g.image_array.shape[2])

FSubNormal(x, y) == FRound(BigSub(BigShl(x.m, x.e - y.e), y.m), y.e, FALSE)

\* abs(x - y) for positive floats that differ
FAbsDiff(x, y) ==
    IF FGreater(x, y) THEN FSubNormal(FNormal(x), FNormal(y))
    ELSE FSubNormal(FNormal(y), FNormal(x))

Lit01 == Lit(1, 10)

\* no canvas
NoCanvas == [size |-> <<>>, boxes |-> <<>>]

\* len(row) of a str or a list
row_len(row) == IF row.type = "list" THEN Len(row.items) ELSE Len(row.text)

\* max(len(row) for row in ascii_data[:n])
RECURSIVE max_len(_, _)
max_len(ascii_rows, n) ==
    IF n = 1 THEN row_len(ascii_rows[1])
    ELSE Max(max_len(ascii_rows, n - 1), row_len(ascii_rows[n]))

\* lines 144-147: position and box of cell (x, y) in standard mode (ints)
char_box(x, y, char_width, char_height) ==
    [pos_x |-> x * char_width, pos_y |-> y * char_height,
     char_box_w |-> char_width, char_box_h |-> char_height]

\* lines 136-143: position and box of cell (x, y) in high-density mode (floats)
scaled_char_box(x, y, char_width, char_height, scale_w, scale_h) ==
    [pos_x |-> FMulInt(scale_w, x * char_width),
     pos_y |-> FMulInt(scale_h, y * char_height),
     char_box_w |-> FMulInt(scale_w, char_width),
     char_box_h |-> FMulInt(scale_h, char_height)]

\* lines 159-173: the glyph is resampled to (int(char_width * scale_w),
\* int(char_height * scale_h)) when the scales differ by more than 0.1;
\* Image.resize raises ValueError for a size with a zero side
stretch_raises(char_width, char_height, scale_w, scale_h) ==
    /\ FGreater(scale_w, scale_h) \/ FGreater(scale_h, scale_w)
    /\ FGreater(FAbsDiff(scale_w, scale_h), Lit01)
    /\ \/ FTrunc(FMulInt(scale_w, char_width)) = 0
       \/ FTrunc(FMulInt(scale_h, char_height)) = 0

\* lines 131-181 in high-density mode: the canvas has the target size
scaled_image(ascii_rows, output_width, output_height, char_width, char_height, scale_w, scale_h) ==
    IF stretch_raises(char_width, char_height, scale_w, scale_h)
    THEN [raised |-> TRUE, ret |-> NoCanvas]
    ELSE [raised |-> FALSE,
          ret |-> [size |-> <<output_width, output_height>>,
                   boxes |-> [j \in 1..Len(ascii_rows) |->
                                [i \in 1..row_len(ascii_rows[j]) |->
                                   scaled_char_box(i - 1, j - 1, char_width,
                                                   char_height, scale_w, scale_h)]]]]

\* lines 186-203: the size the canvas is resized to in standard mode; 0
\* stands for "no resize"
resize_to(base_width, base_height, output_width, output_height) ==
    IF output_width # 0 /\ output_height # 0 THEN <<output_width, output_height>>
    ELSE IF output_width # 0
    THEN <<output_width,
           FTrunc(FMul(FInt(output_width, 0),
                       FDiv(FInt(base_height, 0), FInt(base_width, 0))))>>
    ELSE <<FTrunc(FMul(FInt(output_height, 0),
                       FDiv(FInt(base_width, 0), FInt(base_height, 0)))),
           output_height>>

\* the resize of lines 186-203 raises: ZeroDivisionError in the aspect ratio
\* of an empty canvas, ValueError in Image.resize for a size with a zero
\* side; what Image.resize does with an empty canvas depends on the Pillow
\* build (empty_raises)
resize_raises(base_width, base_height, output_width, output_height, empty_raises) ==
    \/ output_height = 0 /\ base_width = 0
    \/ output_width = 0 /\ base_height = 0
    \/ 0 \in {resize_to(base_width, base_height, output_width, output_height)[1],
              resize_to(base_width, base_height, output_width, output_height)[2]}
    \/ (base_width = 0 \/ base_height = 0) /\ empty_raises

\* lines 110-203 in standard mode
standard_image(ascii_rows, output_width, output_height, high_density, char_width, char_height, base_width, base_height, empty_raises) ==
    IF ~high_density /\ (output_width # 0 \/ output_height # 0)
       /\ resize_raises(base_width, base_height, output_width, output_height,
                        empty_raises)
    THEN [raised |-> TRUE, ret |-> NoCanvas]
    ELSE [raised |-> FALSE,
          ret |-> [size |-> IF ~high_density /\ (output_width # 0 \/ output_height # 0)
                            THEN resize_to(base_width, base_height, output_width,
                                           output_height)
                            ELSE <<base_width, base_height>>,
                   boxes |-> [j \in 1..Len(ascii_rows) |->
                                [i \in 1..row_len(ascii_rows[j]) |->
                                   char_box(i - 1, j - 1, char_width, char_height)]]]]

\* lines 63-203 for a grid of rows x cols cells
image_of(ascii_rows, rows, cols, output_width, output_height, high_density, char_width, char_height, empty_raises) ==
    IF high_density /\ output_width # 0 /\ output_height # 0
    THEN IF cols * char_width = 0 \/ rows * char_height = 0
         THEN [raised |-> TRUE, ret |-> NoCanvas]
         ELSE scaled_image(ascii_rows, output_width, output_height, char_width,
                           char_height,
                           FDiv(FInt(output_width, 0), FInt(cols * char_width, 0)),
                           FDiv(FInt(output_height, 0), FInt(rows * char_height, 0)))
    ELSE standard_image(ascii_rows, output_width, output_height, high_density,
                        char_width, char_height, cols * char_width,
                        rows * char_height, empty_raises)

\* to_image(ascii_data, output_width=, output_height=, high_density=) with
\* the font's cell of char_width x char_height pixels; a target of 0 stands
\* for None as well (the code tests the targets for truth only); len(None)
\* at line 57 raises TypeError
to_image(ascii_data, output_width, output_height, high_density, char_width, char_height, empty_raises) ==
    IF ascii_data.type # "list" THEN [raised |-> TRUE, ret |-> NoCanvas]
    ELSE IF Len(ascii_data.items) = 0 THEN [raised |-> FALSE, ret |-> NoCanvas]
    ELSE image_of(ascii_data.items, Len(ascii_data.items),
                  max_len(ascii_data.items, Len(ascii_data.items)),
                  output_width, output_height, high_density, char_width,
                  char_height, empty_raises)

MaxCell == 2

MaxCanvas == 3

\* rows x cols cells of image mode, with a background
CellGrid(rows, cols) ==
    List([j \in 1..rows |->
            List([i \in 1..cols |-> Tuple("@", <<255, 255, 255>>, <<0, 0, 64>>)])])

\* grids of cells, a grid of two text rows of different lengths, the empty
\* grid and None
RasterGrids ==
    {CellGrid(rows, cols) : rows \in 1..MaxDim, cols \in 0..MaxDim}
    \cup {List(<<Str("@@"), Str("@")>>), List(<<>>), NoneRows}

\* 5 rows of 10 cells of 10 x 10 pixels for a target of 200 x 100, and one
\* cell of 7 x 14 pixels for a target of 29 x 14
ScenarioTargets ==
    {[op |-> "grid", ascii_data |-> CellGrid(5, 10), output_width |-> 200,
      output_height |-> 100, char_width |-> 10, char_height |-> 10],
     [op |-> "grid", ascii_data |-> CellGrid(1, 1), output_width |-> 29,
      output_height |-> 14, char_width |-> 7, char_height |-> 14]}

\* the caller holds a grid, a target size and the metrics of the font
InitRaster ==
    /\ char_set = char_sets("standard")
    /\ char_set_name = "standard"
    /\ directional_mode = FALSE
    /\ active_scheme = "full_rgb"
    /\ output_mode = "image"
    /\ promotion = "legacy"
    /\ InitApp
    /\ call \in {[op |-> "grid", ascii_data |-> g, output_width |-> w,
                  output_height |-> h, char_width |-> cw, char_height |-> ch] :
                    g \in RasterGrids, w \in 0..MaxCanvas, h \in 0..MaxCanvas,
                    cw \in 1..MaxCell, ch \in 1..MaxCell}
                \cup ScenarioTargets

ToImage(high_density, empty_raises) ==
    /\ call.op = "grid"
    /\ call' = [op |-> "to_image", ascii_data |-> call.ascii_data,
                output_width |-> call.output_width,
                output_height |-> call.output_height,
                high_density |-> high_density,
                char_width |-> call.char_width, char_height |-> call.char_height]
               @@ to_image(call.ascii_data, call.output_width, call.output_height,
                           high_density, call.char_width, call.char_height,
                           empty_raises)
    /\ UNCHANGED <<config, promotion, app>>

NextRaster == \E high_density \in BOOLEAN, empty_raises \in BOOLEAN :
                  ToImage(high_density, empty_raises)

SpecRaster == InitRaster /\ [][NextRaster]_vars

(***************************************************************************)
(* Claims about the raster renderer (SpecRaster)                           *)
(***************************************************************************)
\* to_image was called on a grid with at least one row
IsRasterCall ==
    /\ call.op = "to_image"
    /\ call.ascii_data.type = "list"
    /\ Len(call.ascii_data.items) > 0

IsDenseCall ==
    IsRasterCall /\ call.high_density /\ call.output_width # 0
                 /\ call.output_height # 0

\* the numbers of columns and rows of the call's grid
GridCols == max_len(call.ascii_data.items, Len(call.ascii_data.items))

GridRows == Len(call.ascii_data.items)

\* x = y for non-negative floats
FEq(x, y) == ~FGreater(x, y) /\ ~FGreater(y, x)

\* the claimed scales
ClaimedScaleW ==
    FDiv(FInt(call.output_width, 0), FInt(GridCols * call.char_width, 0))

ClaimedScaleH ==
    FDiv(FInt(call.output_height, 0), FInt(GridRows * call.char_height, 0))

\* cell (x, y) of the canvas is drawn at the scaled position in the scaled
\* box, and the box lies inside the target
IsDenseBox(box, x, y) ==
    /\ FEq(box.pos_x, FMulInt(ClaimedScaleW, x * call.char_width))
    /\ FEq(box.pos_y, FMulInt(ClaimedScaleH, y * call.char_height))
    /\ FEq(box.char_box_w, FMulInt(ClaimedScaleW, call.char_width))
    /\ FEq(box.char_box_h, FMulInt(ClaimedScaleH, call.char_height))
    /\ ~FGreater(FAdd(box.pos_x, box.char_box_w), FInt(call.output_width, 0))
    /\ ~FGreater(FAdd(box.pos_y, box.char_box_h), FInt(call.output_height, 0))

\* C23: in high-density mode with both target dimensions given, to_image
\* returns for every non-empty grid a canvas of exactly (target_width,
\* target_height); with scale_w = target_width / (cols * cell_w) and
\* scale_h = target_height / (rows * cell_h), cell (x, y) is drawn at
\* (x * cell_w * scale_w, y * cell_h * scale_h) in a box of (cell_w *
\* scale_w, cell_h * scale_h), and every box lies inside the canvas; 5 rows
\* of 10 cells of 10 x 10 pixels for 200 x 100 have both scales 2.0.
DenseCanvasIsExact ==
    IsDenseCall =>
        /\ ~call.raised
        /\ call.ret.size = <<call.output_width, call.output_height>>
        /\ \A j \in 1..Len(call.ret.boxes) : \A i \in 1..Len(call.ret.boxes[j]) :
              IsDenseBox(call.ret.boxes[j][i], i - 1, j - 1)
        /\ (GridCols = 10 /\ call.output_width = 200) =>
              /\ FEq(ClaimedScaleW, FInt(2, 0))
              /\ FEq(ClaimedScaleH, FInt(2, 0))

IsStandardCall == IsRasterCall /\ ~call.high_density

\* the size claimed for the canvas a standard call returns
ClaimedSize ==
    IF call.output_width = 0 /\ call.output_height = 0
    THEN <<GridCols * call.char_width, GridRows * call.char_height>>
    ELSE IF call.output_width # 0 /\ call.output_height # 0
    THEN <<call.output_width, call.output_height>>
    ELSE IF call.output_width # 0
    THEN <<call.output_width,
           (call.output_width * GridRows * call.char_height)
               \div (GridCols * call.char_width)>>
    ELSE <<(call.output_height * GridCols * call.char_width)
               \div (GridRows * call.char_height),
           call.output_height>>

\* C24: in standard mode to_image draws cell (x, y) at (x * cell_w,
\* y * cell_h) on a canvas of (cols * cell_w, rows * cell_h) and returns
\* that canvas when no target is given, a canvas of exactly (target_width,
\* target_height) when both are given, and with one target dimension that
\* dimension exactly and the other one the truncation of its product with
\* the aspect ratio of the canvas.
StandardCanvasSize ==
    IsStandardCall =>
        /\ ~call.raised
        /\ \A j \in 1..Len(call.ret.boxes) : \A i \in 1..Len(call.ret.boxes[j]) :
              call.ret.boxes[j][i]
                  = [pos_x |-> (i - 1) * call.char_width,
                     pos_y |-> (j - 1) * call.char_height,
                     char_box_w |-> call.char_width,
                     char_box_h |-> call.char_height]
        /\ call.ret.size = ClaimedSize

(***************************************************************************)
(* Successive conversions                                                  *)
(***************************************************************************)
\* image_to_ascii once more, with the buffer and the arguments of the last
\* conversion
ConvertAgain ==
    /\ call.op = "image_to_ascii"
    /\ call' = [op |-> "image_to_ascii_again", first |-> call,
                ret |-> image_to_ascii(call.image_array, call.colored,
                                       call.bg_color, call.invert,
                                       call.brightness_boost)]
    /\ UNCHANGED <<config, promotion, app>>

\* the 2 x 2 scenario buffer and a 3 x 3 buffer with a vertical edge
FrameArrays == {ScenarioArray, EdgeArray(3, 3, "vertical", <<0, 255>>)}

InitFrame == InitConverter(None)

NextFrame ==
    \/ \E mode \in valid_modes : SetOutputMode(mode)
    \/ \E scheme_name \in {"full_rgb", "neon"} : SetColorScheme(scheme_name)
    \/ SetCharSet("manga", None)
    \/ SetDirectionalMode(TRUE)
    \/ \E image_array \in FrameArrays, colored \in BOOLEAN,
          bg_color \in {None, <<0, 0, 64>>} :
          ImageToAscii(image_array, colored, bg_color, FALSE, BoostOne)
    \/ ConvertAgain

SpecFrame == InitFrame /\ [][NextFrame]_vars

level_no(name) ==
    CASE name = "NOTSET" -> 0
      [] name = "DEBUG" -> 10
      [] name = "INFO" -> 20
      [] name = "WARNING" -> 30
      [] name = "ERROR" -> 40
      [] name = "CRITICAL" -> 50

\* Logger(log_level, log_to_file): __new__ returns the one instance and
\* __init__ returns at once when it has run before; otherwise it sets the
\* level of the 'ascii_wallpaper' logger and replaces its handlers
logger_init(log_level, log_to_file) ==
    IF Logger.initialized THEN Logger
    ELSE [initialized |-> TRUE, level |-> log_level,
          handlers |-> <<[kind |-> "console", level |-> log_level]>>
                       \o (IF log_to_file
                           THEN <<[kind |-> "file", level |-> log_level]>>
                           ELSE <<>>)]

\* the handlers of the 'ascii_wallpaper' logger that emit a record of the
\* given level logged through a child logger of the Logger record lg
emitted_by(lg, level) ==
    IF level_no(level) < level_no(lg.level) THEN {}
    ELSE {lg.handlers[i].kind :
             i \in {k \in 1..Len(lg.handlers) :
                      level_no(level) >= level_no(lg.handlers[k].level)}}

\* the level last given to Config.set in the calls up to this one
set_level_so_far ==
    IF call.op = "Config.set" THEN Config.level
    ELSE IF call.op = "log" THEN call.set_level
    ELSE "none"

\* Logger(log_level=, log_to_file=) somewhere in the application
NewLogger(log_level, log_to_file) ==
    /\ Logger' = logger_init(log_level, log_to_file)
    /\ call' = [op |-> "Logger", log_level |-> log_level, log_to_file |-> log_to_file]
    /\ UNCHANGED <<config, promotion, Config, LiveWallpaper, CLI>>

\* Config() with a configuration file that holds the given logging section:
\* line 44 constructs a Logger with the defaults, lines 87-95 one with the
\* settings of the file
NewConfig(level, log_to_file) ==
    /\ Logger' = IF Config.initialized THEN Logger ELSE logger_init("INFO", TRUE)
    /\ Config' = IF Config.initialized THEN Config
                 ELSE [initialized |-> TRUE, level |-> level,
                       log_to_file |-> log_to_file]
    /\ call' = [op |-> "Config"]
    /\ UNCHANGED <<config, promotion, LiveWallpaper, CLI>>

\* Config().set('logging', key, value): lines 108-113 store the value and
\* call _setup_logging, whose Logger(...) is the initialized singleton
ConfigSet(key, value) ==
    /\ Config.initialized
    /\ Config' = IF key = "level" THEN [Config EXCEPT !.level = value]
                 ELSE [Config EXCEPT !.log_to_file = value]
    /\ Logger' = logger_init(IF key = "level" THEN value ELSE Config.level,
                             IF key = "level" THEN Config.log_to_file ELSE value)
    /\ call' = [op |-> "Config.set", key |-> key, value |-> value]
    /\ UNCHANGED <<config, promotion, LiveWallpaper, CLI>>

\* a module obtains its logger by Logger().get_logger(name) and logs a
\* record of the given level
Log(level) ==
    /\ Logger' = logger_init("INFO", TRUE)
    /\ call' = [op |-> "log", level |-> level,
                emitted |-> emitted_by(logger_init("INFO", TRUE), level),
                set_level |-> set_level_so_far]
    /\ UNCHANGED <<config, promotion, Config, LiveWallpaper, CLI>>

LevelNames == {"DEBUG", "INFO", "WARNING"}

InitLogging == InitConverter(None)

NextLogging ==
    \/ \E log_level \in LevelNames, log_to_file \in BOOLEAN :
          NewLogger(log_level, log_to_file)
    \/ \E level \in LevelNames, log_to_file \in BOOLEAN : NewConfig(level, log_to_file)
    \/ \E value \in LevelNames : ConfigSet("level", value)
    \/ \E value \in BOOLEAN : ConfigSet("log_to_file", value)
    \/ \E level \in LevelNames \cup {"ERROR"} : Log(level)

SpecLogging == InitLogging /\ [][NextLogging]_vars

(***************************************************************************)
(* Claims about the logging configuration (SpecLogging)                    *)
(***************************************************************************)
\* C26: after Config.set('logging', 'level', L) or Config.set('logging',
\* 'log_to_file', F) logging is reconfigured: the application logger and
\* its handlers have the configured level, the file handler exists exactly
\* when log_to_file is set, and every later log call is emitted exactly
\* when its level is at least the configured one.
SetReconfiguresLogging ==
    /\ call.op = "Config.set" =>
          /\ Logger.level = Config.level
          /\ \A i \in 1..Len(Logger.handlers) : Logger.handlers[i].level = Config.level
          /\ (\E i \in 1..Len(Logger.handlers) : Logger.handlers[i].kind = "file")
                <=> Config.log_to_file
    /\ (call.op = "log" /\ call.set_level # "none") =>
          (call.emitted # {} <=> level_no(call.level) >= level_no(call.set_level))

(***************************************************************************)
(* extensions/live_wallpaper.py: start(), stop() and the worker threads    *)
(***************************************************************************)
MaxThreads == 3

\* start() by the controlling thread; the video file exists
Start ==
    /\ LiveWallpaper.main = "idle"
    /\ Len(LiveWallpaper.workers) < MaxThreads
    /\ LiveWallpaper' =
          IF LiveWallpaper.running THEN LiveWallpaper
          ELSE [LiveWallpaper EXCEPT
                   !.running = TRUE,
                   !.workers = Append(@, "open"),
                   !.thread = Len(LiveWallpaper.workers) + 1]
    /\ call' = [op |-> "start", ret |-> ~LiveWallpaper.running]
    /\ UNCHANGED <<config, promotion, Logger, Config, CLI>>

\* stop(), lines 63-65: running is cleared and the thread, if any, joined
StopBegin ==
    /\ LiveWallpaper.main = "idle"
    /\ LiveWallpaper' =
          [LiveWallpaper EXCEPT
              !.running = FALSE,
              !.main = IF LiveWallpaper.thread # 0 THEN "joining" ELSE "idle"]
    /\ call' = [op |-> "stop", thread |-> LiveWallpaper.thread]
    /\ UNCHANGED <<config, promotion, Logger, Config, CLI>>

\* stop(), lines 65-66: join(timeout=1.0) returns when the worker has ended,
\* or after one second while the worker is still in a frame
StopJoin ==
    /\ LiveWallpaper.main = "joining"
    /\ LiveWallpaper.workers[LiveWallpaper.thread] \in {"done", "frame"}
    /\ LiveWallpaper' = [LiveWallpaper EXCEPT !.thread = 0, !.main = "idle"]
    /\ call' = [op |-> "stopped", thread |-> LiveWallpaper.thread,
                timed_out |-> LiveWallpaper.workers[LiveWallpaper.thread] # "done"]
    /\ UNCHANGED <<config, promotion, Logger, Config, CLI>>

\* _process_video, lines 71-77: the capture opens, or it does not and the
\* worker clears running and returns
WorkerOpen(i, opened) ==
    /\ LiveWallpaper.workers[i] = "open"
    /\ LiveWallpaper' =
          IF opened THEN [LiveWallpaper EXCEPT !.workers[i] = "test"]
          ELSE [LiveWallpaper EXCEPT !.workers[i] = "done", !.running = FALSE]
    /\ call' = [op |-> "open", worker |-> i]
    /\ UNCHANGED <<config, promotion, Logger, Config, CLI>>

\* _process_video, line 79: while self.running
WorkerTest(i) ==
    /\ LiveWallpaper.workers[i] = "test"
    /\ LiveWallpaper' =
          [LiveWallpaper EXCEPT
              !.workers[i] = IF LiveWallpaper.running THEN "frame" ELSE "done"]
    /\ call' = [op |-> "test", worker |-> i]
    /\ UNCHANGED <<config, promotion, Logger, Config, CLI>>

\* _process_video, lines 80-116: one frame through self.image_processor and
\* self.ascii_converter; an exception clears running and ends the worker
\* (lines 120-122)
WorkerFrame(i, failed) ==
    /\ LiveWallpaper.workers[i] = "frame"
    /\ LiveWallpaper' =
          IF failed
          THEN [LiveWallpaper EXCEPT !.workers[i] = "done", !.running = FALSE]
          ELSE [LiveWallpaper EXCEPT !.workers[i] = "test"]
    /\ call' = [op |-> "frame", worker |-> i]
    /\ UNCHANGED <<config, promotion, Logger, Config, CLI>>

InitWallpaper == InitConverter(None)

NextWallpaper ==
    \/ Start
    \/ StopBegin
    \/ StopJoin
    \/ \E i \in 1..Len(LiveWallpaper.workers), opened \in BOOLEAN : WorkerOpen(i, opened)
    \/ \E i \in 1..Len(LiveWallpaper.workers) : WorkerTest(i)
    \/ \E i \in 1..Len(LiveWallpaper.workers), failed \in BOOLEAN : WorkerFrame(i, failed)

SpecWallpaper == InitWallpaper /\ [][NextWallpaper]_vars

(***************************************************************************)
(* Claims about the worker threads (SpecWallpaper)                         *)
(***************************************************************************)
\* the worker threads that have not ended
ActiveWorkers ==
    {i \in 1..Len(LiveWallpaper.workers) : LiveWallpaper.workers[i] # "done"}

\* C27: for every interleaving of start() and stop() with the worker's
\* loop, a stop() whose join times out during a frame and a following
\* start() included, at most one worker thread is active at a time on the
\* image processor and the converter of the LiveWallpaper.
AtMostOneWorker == Cardinality(ActiveWorkers) <= 1

(***************************************************************************)
(* ui/cli.py: load, convert, view and save of the interactive session      *)
(***************************************************************************)
\* the default brightness_boost of image_to_ascii, the float 1.5
BoostDefault == [int |-> FALSE, q |-> 6]

\* not ascii_result: None and the empty list are false
no_result == CLI.ascii_result.type # "list" \/ Len(CLI.ascii_result.items) = 0

\* load <path>: lines 69-70 store an ImageProcessor whether or not the file
\* could be read (image is then None)
LoadImage(image) ==
    /\ CLI.pc = "prompt"
    /\ CLI' = [CLI EXCEPT !.image_processor = TRUE, !.image = image]
    /\ call' = [op |-> "load", image |-> image]
    /\ UNCHANGED <<config, promotion, Logger, Config, LiveWallpaper>>

\* convert charset= color= scheme= invert=, lines 82-127: without an image
\* processor nothing happens; otherwise the ramp and the scheme are set and
\* the command goes on to the conversion
Convert(charset, color, scheme, invert) ==
    /\ CLI.pc = "prompt"
    /\ char_set' = IF CLI.image_processor THEN set_char_set(charset, None)[1]
                   ELSE char_set
    /\ char_set_name' = IF CLI.image_processor THEN set_char_set(charset, None)[2]
                        ELSE char_set_name
    /\ active_scheme' = IF CLI.image_processor THEN set_color_scheme(scheme)[1]
                        ELSE active_scheme
    /\ CLI' = IF CLI.image_processor
              THEN [CLI EXCEPT !.pc = "convert", !.args = <<color, invert>>]
              ELSE CLI
    /\ call' = [op |-> "convert", charset |-> charset, color |-> color,
                scheme |-> scheme, invert |-> invert]
    /\ UNCHANGED <<directional_mode, output_mode, promotion, Logger, Config,
                   LiveWallpaper>>

\* convert, lines 130-148: the image, if there is one, is converted with
\* the ramp and the scheme just set, in the mode the colour handler is in
ConvertImage ==
    /\ CLI.pc = "convert"
    /\ CLI' = [CLI EXCEPT
                  !.pc = "prompt",
                  !.args = <<>>,
                  !.ascii_result =
                      IF CLI.image = NoneArray THEN @
                      ELSE image_to_ascii(CLI.image, CLI.args[1], None, CLI.args[2],
                                          BoostDefault)]
    /\ call' = [op |-> "converted", done |-> CLI.image # NoneArray]
    /\ UNCHANGED <<config, promotion, Logger, Config, LiveWallpaper>>

\* view: to_string on the stored result (the terminal has room for all the
\* rows); the handler of lines 218-220 reports an exception
View ==
    /\ CLI.pc = "prompt"
    /\ call' = IF no_result THEN [op |-> "view", shown |-> FALSE, raised |-> FALSE]
               ELSE [op |-> "view", shown |-> ~to_string(CLI.ascii_result).raised,
                     raised |-> to_string(CLI.ascii_result).raised]
    /\ UNCHANGED <<config, promotion, app>>

\* save format=: txt and html render the stored result; a raster format
\* puts the colour handler into image mode (line 261) and converts the
\* image again for to_image, which fails at its line 57 when the last load
\* left no image; the handler of lines 272-274 reports an exception
Save(format_type) ==
    /\ CLI.pc = "prompt"
    /\ call' = IF no_result THEN [op |-> "save", saved |-> FALSE, raised |-> FALSE]
               ELSE [op |-> "save", format_type |-> format_type,
                     saved |-> CASE format_type = "txt" ->
                                      ~to_string(CLI.ascii_result).raised
                                 [] format_type = "html" ->
                                      ~to_html(CLI.ascii_result, "ASCII Art", "").raised
                                 [] OTHER -> CLI.image # NoneArray,
                     raised |-> CASE format_type = "txt" ->
                                       to_string(CLI.ascii_result).raised
                                  [] format_type = "html" ->
                                       to_html(CLI.ascii_result, "ASCII Art", "").raised
                                  [] OTHER -> CLI.image = NoneArray]
    /\ output_mode' = IF ~no_result /\ format_type \in {"png", "jpg", "jpeg", "bmp", "gif"}
                      THEN set_output_mode("image")[1]
                      ELSE output_mode
    /\ UNCHANGED <<char_set, char_set_name, directional_mode, active_scheme,
                   promotion, app>>

InitCLI == InitConverter(None)

NextCLI ==
    \/ \E image \in {ScenarioArray, UniformArray(1, 2, <<0, 128, 64>>), NoneArray} :
          LoadImage(image)
    \/ \E charset \in {"standard", "minimal", "unknown"}, color \in BOOLEAN,
          scheme \in {"full_rgb", "grayscale"} :
          Convert(charset, color, scheme, FALSE)
    \/ ConvertImage
    \/ View
    \/ \E format_type \in {"txt", "html", "png", "jpg"} : Save(format_type)

SpecCLI == InitCLI /\ [][NextCLI]_vars

(***************************************************************************)
(* Claims about the interactive session (SpecCLI)                          *)
(***************************************************************************)
\* C28: after any sequence of load, convert, view and save commands the
\* stored conversion result is a list of text rows, which view and save
\* format=txt can join: a save in a raster format does not change the
\* output mode that later convert commands use.
ResultIsTextRows ==
    /\ \A j \in 1..Len(CLI.ascii_result.items) :
          CLI.ascii_result.items[j].type = "str"
    /\ call.op \in {"view", "save"} => ~call.raised
    /\ output_mode = "terminal"

(***************************************************************************)
(* AsciiConverter: the recorded name of the ramp                           *)
(*                                                                         *)
(* A converter constructed with or without a ramp of the caller's (one of  *)
(* them the glyphs of the "manga" preset), then set_char_set with preset   *)
(* names, an unknown name and custom ramps, set_directional_mode, and      *)
(* pixel_to_ascii at the centre of an edge.                                *)
(***************************************************************************)
RampSetNames == {"manga", "diagonal", "minimal", "unknown"}

ConstructorRamps == {None, char_sets("manga")} \cup CustomRamps

RampEdges == {EdgeArray(3, 3, kind, <<0, 255>>) : kind \in {"vertical", "rising"}}

InitRamp == \E ramp \in ConstructorRamps : InitConverter(ramp)

NextRamp ==
    \/ \E set_name \in RampSetNames, custom_chars \in {None} \cup CustomRamps :
          SetCharSet(set_name, custom_chars)
    \/ \E enabled \in BOOLEAN : SetDirectionalMode(enabled)
    \/ \E image_array \in RampEdges :
          PixelAt(image_array, 1, 1, FALSE, None, FALSE, BoostOne)

SpecRamp == InitRamp /\ [][NextRamp]_vars

\* the directional override of lines 89-101 was in force for the last call
OverrideInForce ==
    /\ call.op = "pixel_to_ascii"
    /\ directional_mode
    /\ char_set_name \in {"manga", "diagonal"}

\* C29: after construction, with or without a ramp of the caller's, and any
\* sequence of set_char_set calls, the recorded name describes the active
\* ramp: the name is "custom", or the active ramp is the preset registered
\* under the name; so the directional override is in force only when the
\* active ramp is the manga or the diagonal preset
NameDescribesRamp ==
    /\ \/ char_set_name = "custom"
       \/ /\ char_set_name \in PresetNames
          /\ char_set = char_sets(char_set_name)
    /\ OverrideInForce => char_set = char_sets(char_set_name)

(***************************************************************************)
(* The colours of the cells                                                *)
(*                                                                         *)
(* A colour handler whose scheme and mode are set, the four schemes        *)
(* applied to colours, and apply_color for the cell of a pixel.            *)
(***************************************************************************)
TintModes == {"terminal", "image"}

InitTint == InitConverter(None)

NextTint ==
    \/ \E scheme_name \in SchemeNames \cup {"sepia"} : SetColorScheme(scheme_name)
    \/ \E mode \in TintModes : SetOutputMode(mode)
    \/ \E scheme \in SchemeNames, rgb \in Colors : ApplyScheme(scheme, rgb)
    \/ \E rgb \in Colors : ApplyColor("#", rgb, None)

SpecTint == InitTint /\ [][NextTint]_vars

\* a triple of integers in 0..255
IsEightBitRgb(c) ==
    /\ Len(c) = 3
    /\ \A i \in 1..3 : c[i] \in 0..255

\* apply_color returned the cell of image mode, which carries the colour
IsImageCell == call.op = "apply_color" /\ call.ret.type = "tuple"

\* C30: each of the four schemes maps a triple with channels in 0..255 to a
\* triple of integers in 0..255, and the foreground colour of a rendered cell
\* is such a triple whatever scheme is active
ColoursAreEightBit ==
    /\ call.op = "color_scheme" => IsEightBitRgb(call.ret)
    /\ IsImageCell => IsEightBitRgb(call.ret.fg)

\* a white pixel rendered under the pastel scheme stays white, and the neon
\* scheme has been applied to a colour it brightens to the limit
ColoursAreEightBitWitness ==
    /\ IsImageCell
    /\ active_scheme = "pastel"
    /\ call.rgb = <<255, 255, 255>>
    /\ call.ret.fg = <<255, 255, 255>>

=============================================================================
